---- MODULE Spec2Model ----
(***************************************************************************)
(* Verification model of the ledger-smart-converter ingestion pipeline:    *)
(* the description normalizer, the CanonicalTransaction identity, the      *)
(* PDF/XML reconciler and the CSV -> SQLite migrator.                      *)
(*                                                                         *)
(* Text is modelled as a sequence of one-character strings, so that        *)
(* strip(), lower(), upper(), title(), split() and join() are computed     *)
(* and not assumed.  Amounts are integers counted in thousandths of a      *)
(* currency unit (100.004 is 100004); the amounts used never end in the    *)
(* digit 5, where the binary representation of the float would decide the  *)
(* rounding.                                                               *)
(***************************************************************************)
EXTENDS Integers, Sequences, FiniteSets, TLC

\* ------------------------------------------------------------------------
\* State
\* ------------------------------------------------------------------------

\* the normalizer's input and its two successive results
VARIABLES raw, once, twice, npc

\* a CanonicalTransaction, a copy of it with one field replaced, and the
\* name of that field
VARIABLES ct, ct2, changed

\* the reconciler: its two arguments, its locals (claimed[k] is the position
\* in xml_txns of the candidate taken for pdf_txns[k], 0 when there was none)
\* and the summary it returns
VARIABLES pdf_txns, xml_txns, merged, pdf_only, diffs, used_xml, claimed, rpc, summary

\* the migrator: the CSV files on disk; the accounts, imports and
\* transactions tables; the position and the locals of migrate_csvs_to_db;
\* what each finished call returned; the content ids of the rows handed to
\* insert_transaction; the last insert_transaction call and its result
VARIABLES fs, accounts, imports, transactions, dpc, run, returned, seen, last_insert

\* classify: its arguments, its locals, the number of rules whose regexes
\* were searched, and the tuple it returns
VARIABLES desc, compiled_rules, merchant_aliases, expense, tags, consulted, cpc, classified

\* infer_kind: the pieces its description argument is made of, its amount
\* and rfc arguments, and what it returns
VARIABLES k_pieces, k_amount, k_rfc, kind, kpc

\* get_statement_period: the year, month and day its date argument is written
\* from and how, its closing day argument, and what it returns
VARIABLES p_year, p_month, p_day, p_padded, p_closing, period, ppc

\* GenericImporter.process: its arguments and the importer's bank, its
\* locals, where it is and the exception it raised
VARIABLES g_txns, g_strict, g_bank_id, out_rows, warning_count, gpc, g_error

\* extract_transactions_from_pdf: the pages of the document, its use_ocr
\* argument, whether the pytesseract module was imported, the locals of the
\* page loop, the rows collected so far, the stages each page went through,
\* and where the function is
VARIABLES doc, use_ocr, pytesseract, page_idx, txt, used_method, sub_txns, pdf_rows, stages, xpc

\* extract_pdf_metadata: what the patterns capture in the text of page one
\* and in the recognized header, whether get_text returns, whether cv2 and
\* pytesseract were imported, whether render_page returns an image, the
\* metadata dict, the dict as it was after the text pass, whether the
\* recognition was run, and where the function is
VARIABLES page1_text, txt_ocr, md_readable, md_cv2, md_pytesseract, md_renders, metadata, text_metadata, ocr_ran, mpc

nmVars == <<raw, once, twice, npc>>

\* the rule service: the rules of the rules file, whether the pending file
\* exists and its pending rules, the backups written, the last call and
\* what it returned
VARIABLES rules_file, pending_exists, pending_file, backups, rs_call, rs_result
rsVars == <<rules_file, pending_exists, pending_file, backups, rs_call, rs_result>>

\* the generic fallback reader: the file's columns and rows, the column
\* mapping, the rows returned, the reader's position
VARIABLES lg_columns, lg_rows, col_map, lg_out, lg_i, lpc
lgVars == <<lg_columns, lg_rows, col_map, lg_out, lg_i, lpc>>

mdVars == <<page1_text, txt_ocr, md_readable, md_cv2, md_pytesseract, md_renders, metadata, text_metadata, ocr_ran, mpc>>

pxVars == <<doc, use_ocr, pytesseract, page_idx, txt, used_method, sub_txns, pdf_rows, stages, xpc>>

giVars == <<g_txns, g_strict, g_bank_id, out_rows, warning_count, gpc, g_error>>

spVars == <<p_year, p_month, p_day, p_padded, p_closing, period, ppc>>

kiVars == <<k_pieces, k_amount, k_rfc, kind, kpc>>

clVars == <<desc, compiled_rules, merchant_aliases, expense, tags, consulted, cpc, classified>>

moreVars == <<clVars, kiVars, spVars, giVars, pxVars, mdVars, lgVars, rsVars>>

dbVars == <<fs, accounts, imports, transactions, dpc, run, returned, seen, last_insert>>

rcVars == <<pdf_txns, xml_txns, merged, pdf_only, diffs, used_xml, claimed, rpc, summary>>

idVars == <<ct, ct2, changed>>

vars == <<nmVars, idVars, rcVars, dbVars, moreVars>>

\* the subsystems are independent: each specification runs one of them and
\* leaves the others in these rest states
nmRest == raw = <<>> /\ once = <<>> /\ twice = <<>> /\ npc = "rest"

idRest == ct = <<>> /\ ct2 = <<>> /\ changed = "rest"

rcRest ==
    /\ pdf_txns = <<>> /\ xml_txns = <<>> /\ merged = <<>> /\ pdf_only = <<>>
    /\ diffs = <<>> /\ used_xml = {} /\ claimed = <<>> /\ rpc = "rest" /\ summary = <<>>

dbRest ==
    /\ fs = <<>> /\ accounts = <<>> /\ imports = <<>> /\ transactions = <<>>
    /\ dpc = "rest" /\ run = <<>> /\ returned = <<>> /\ seen = {} /\ last_insert = <<>>

clRest ==
    /\ desc = <<>> /\ compiled_rules = <<>> /\ merchant_aliases = <<>> /\ expense = <<>>
    /\ tags = <<>> /\ consulted = 0 /\ cpc = "rest" /\ classified = <<>>

kiRest == k_pieces = <<>> /\ k_amount = 0 /\ k_rfc = <<>> /\ kind = "rest" /\ kpc = "rest"

spRest ==
    /\ p_year = 0 /\ p_month = 0 /\ p_day = 0 /\ p_padded = FALSE /\ p_closing = 0
    /\ period = <<>> /\ ppc = "rest"

giRest ==
    /\ g_txns = <<>> /\ g_strict = FALSE /\ g_bank_id = <<>> /\ out_rows = <<>>
    /\ warning_count = 0 /\ gpc = "rest" /\ g_error = "none"

pxRest ==
    /\ doc = <<>> /\ use_ocr = FALSE /\ pytesseract = FALSE /\ page_idx = 0 /\ txt = <<>>
    /\ used_method = "" /\ sub_txns = <<>> /\ pdf_rows = <<>> /\ stages = <<>> /\ xpc = "rest"

mdRest ==
    /\ page1_text = <<>> /\ txt_ocr = <<>> /\ md_readable = FALSE /\ md_cv2 = FALSE
    /\ md_pytesseract = FALSE /\ md_renders = FALSE /\ metadata = <<>> /\ text_metadata = <<>>
    /\ ocr_ran = FALSE /\ mpc = "rest"

lgRest ==
    /\ lg_columns = <<>> /\ lg_rows = <<>> /\ col_map = <<>> /\ lg_out = <<>>
    /\ lg_i = 0 /\ lpc = "rest"

rsRest ==
    /\ rules_file = <<>> /\ pending_exists = FALSE /\ pending_file = <<>> /\ backups = <<>>
    /\ rs_call = <<>> /\ rs_result = <<>>

moreRest == clRest /\ kiRest /\ spRest /\ giRest /\ pxRest /\ mdRest /\ lgRest /\ rsRest

\* ------------------------------------------------------------------------
\* Characters and Python str methods
\* ------------------------------------------------------------------------

LowerLetters == <<"a","b","c","d","e","f","g","h","i","j","k","l","m","n","o","p","q","r","s","t","u","v","w","x","y","z","é","í","ó">>

UpperLetters == <<"A","B","C","D","E","F","G","H","I","J","K","L","M","N","O","P","Q","R","S","T","U","V","W","X","Y","Z","É","Í","Ó">>

Digits == {"0","1","2","3","4","5","6","7","8","9"}

DigitSeq == <<"0","1","2","3","4","5","6","7","8","9">>

\* the no-break space, a compatibility character that NFKC maps to a space
NBSP == "nbsp"

IsLower(c) == \E i \in 1..Len(LowerLetters) : LowerLetters[i] = c

IsUpper(c) == \E i \in 1..Len(UpperLetters) : UpperLetters[i] = c

IsCased(c) == IsLower(c) \/ IsUpper(c)

UpChar(c) == IF IsLower(c) THEN UpperLetters[CHOOSE i \in 1..Len(LowerLetters) : LowerLetters[i] = c] ELSE c

LowChar(c) == IF IsUpper(c) THEN LowerLetters[CHOOSE i \in 1..Len(UpperLetters) : UpperLetters[i] = c] ELSE c

\* str.upper()
Upper(s) == [i \in 1..Len(s) |-> UpChar(s[i])]

\* str.lower()
Lower(s) == [i \in 1..Len(s) |-> LowChar(s[i])]

\* str.title(): a cased character is upper-cased when it follows an uncased
\* one (or starts the string) and lower-cased otherwise
Title(s) == [i \in 1..Len(s) |-> IF i = 1 \/ ~IsCased(s[i-1]) THEN UpChar(s[i]) ELSE LowChar(s[i])]

\* str.isdigit()
IsDigitStr(s) == Len(s) > 0 /\ \A i \in 1..Len(s) : s[i] \in Digits

\* \s of the re module and of str.strip(), on the characters of the model
IsWs(c) == c \in {" ", "\t", NBSP}

SetMin(S) == CHOOSE x \in S : \A y \in S : x <= y

SetMax(S) == CHOOSE x \in S : \A y \in S : x >= y

\* str.strip()
Strip(s) ==
    LET keep == {i \in 1..Len(s) : ~IsWs(s[i])}
    IN  IF keep = {} THEN <<>> ELSE SubSeq(s, SetMin(keep), SetMax(keep))

RECURSIVE CollapseFrom(_, _)
CollapseFrom(s, i) ==
    IF i > Len(s) THEN <<>>
    ELSE IF IsWs(s[i])
         THEN IF i > 1 /\ IsWs(s[i-1]) THEN CollapseFrom(s, i + 1)
              ELSE <<" ">> \o CollapseFrom(s, i + 1)
         ELSE <<s[i]>> \o CollapseFrom(s, i + 1)

\* re.sub(r"\s+", " ", (s or "").strip())
strip_ws(s) == CollapseFrom(Strip(s), 1)

RECURSIVE JoinWith(_, _)
\* sep.join(tokens)
JoinWith(tokens, sep) ==
    IF Len(tokens) = 0 THEN <<>>
    ELSE IF Len(tokens) = 1 THEN tokens[1]
    ELSE tokens[1] \o sep \o JoinWith(Tail(tokens), sep)

RECURSIVE SplitFrom(_, _, _)
\* re.split(r"[ \t]+", text): cur is the token being read
SplitFrom(s, i, cur) ==
    IF i > Len(s) THEN <<cur>>
    ELSE IF s[i] \in {" ", "\t"}
         THEN IF i > 1 /\ s[i-1] \in {" ", "\t"} THEN SplitFrom(s, i + 1, cur)
              ELSE <<cur>> \o SplitFrom(s, i + 1, <<>>)
         ELSE SplitFrom(s, i + 1, Append(cur, s[i]))

SplitWs(s) == SplitFrom(s, 1, <<>>)

\* ------------------------------------------------------------------------
\* description_normalizer.py
\* ------------------------------------------------------------------------

K_TRANSF == <<"T","R","A","N","S","F">>
K_TRANSFER == <<"T","R","A","N","S","F","E","R">>
K_DEBITO == <<"D","E","B","I","T","O">>
K_CREDITO == <<"C","R","E","D","I","T","O">>
K_COMISION == <<"C","O","M","I","S","I","O","N">>
K_MERPAGO == <<"M","E","R","P","A","G","O">>
K_MERCADOPAGO == <<"M","E","R","C","A","D","O","P","A","G","O">>
K_MERCADO == <<"M","E","R","C","A","D","O">>
K_PAGO == <<"P","A","G","O">>
K_INTERES == <<"I","N","T","E","R","E","S">>
K_NOMINA == <<"N","O","M","I","N","A">>
V_Transferencia == <<"T","r","a","n","s","f","e","r","e","n","c","i","a">>
V_Debito == <<"D","é","b","i","t","o">>
V_Credito == <<"C","r","é","d","i","t","o">>
V_Comision == <<"C","o","m","i","s","i","ó","n">>
V_MercadoPago == <<"M","e","r","c","a","d","o","P","a","g","o">>
V_Mercado == <<"M","e","r","c","a","d","o">>
V_Pago == <<"P","a","g","o">>
V_Interes == <<"I","n","t","e","r","é","s">>
V_Nomina == <<"N","ó","m","i","n","a">>
A_SPEI == <<"S","P","E","I">>
A_RFC == <<"R","F","C">>
A_IVA == <<"I","V","A">>
A_ATM == <<"A","T","M">>
A_PIN == <<"P","I","N">>
A_CVV == <<"C","V","V">>
A_SAT == <<"S","A","T">>
A_CFE == <<"C","F","E">>
L_mercado == <<"m","e","r","c","a","d","o">>
L_pago == <<"p","a","g","o">>

\* _ABBREVIATIONS as the set of its (key, value) items, dropping the entry
\* that maps the merged brand token back to itself
ABBREVIATIONS_NoBrand ==
    { <<K_TRANSF, V_Transferencia>>, <<K_TRANSFER, V_Transferencia>>,
      <<K_DEBITO, V_Debito>>, <<K_CREDITO, V_Credito>>,
      <<K_COMISION, V_Comision>>, <<K_MERPAGO, V_MercadoPago>>,
      <<K_MERCADO, V_Mercado>>, <<K_PAGO, V_Pago>> }

\* _ABBREVIATIONS as the set of its (key, value) items
ABBREVIATIONS ==
    { <<K_TRANSF, V_Transferencia>>, <<K_TRANSFER, V_Transferencia>>,
      <<K_DEBITO, V_Debito>>, <<K_CREDITO, V_Credito>>,
      <<K_COMISION, V_Comision>>, <<K_MERPAGO, V_MercadoPago>>,
      <<K_MERCADOPAGO, V_MercadoPago>>, <<K_MERCADO, V_Mercado>>,
      <<K_PAGO, V_Pago>> }

\* _ACCENT_RESTORATION as the set of its (key, value) items
ACCENT_RESTORATION ==
    { <<K_DEBITO, V_Debito>>, <<K_CREDITO, V_Credito>>,
      <<K_COMISION, V_Comision>>, <<K_INTERES, V_Interes>>,
      <<K_NOMINA, V_Nomina>> }

ACRONYMS == {A_SPEI, A_RFC, A_IVA, A_ATM, A_PIN, A_CVV, A_SAT, A_CFE}

InDict(d, k) == \E p \in d : p[1] = k

DictGet(d, k) == (CHOOSE p \in d : p[1] = k)[2]

\* _NOISE_RX = ^[\d\-_/]+$
NOISE_RX(s) == Len(s) > 0 /\ \A i \in 1..Len(s) : s[i] \in Digits \cup {"-", "_", "/"}

\* unicodedata.normalize("NFKC", value) on the characters of the model: the
\* no-break space becomes a space, every other character is already composed
normalize_unicode(s) == [i \in 1..Len(s) |-> IF s[i] = NBSP THEN " " ELSE s[i]]

\* _collapse_ws
collapse_ws(s) == strip_ws(s)

\* the body of the first loop of normalize_tokens for one token: the list of
\* tokens (none or one) it appends to cleaned
CleanToken(tok) ==
    LET raw_tok == Strip(tok)
        upper == Upper(raw_tok)
    IN  IF Len(raw_tok) = 0 THEN <<>>
        ELSE IF NOISE_RX(raw_tok) THEN <<>>
        ELSE IF Len(raw_tok) >= 12 /\ IsDigitStr(raw_tok) THEN <<>>
        ELSE IF InDict(ABBREVIATIONS, upper) THEN <<DictGet(ABBREVIATIONS, upper)>>
        ELSE IF InDict(ACCENT_RESTORATION, upper) THEN <<DictGet(ACCENT_RESTORATION, upper)>>
        ELSE IF upper \in ACRONYMS THEN <<upper>>
        ELSE <<Title(raw_tok)>>

RECURSIVE CleanTokens(_)
CleanTokens(tokens) ==
    IF Len(tokens) = 0 THEN <<>>
    ELSE CleanToken(tokens[1]) \o CleanTokens(Tail(tokens))

RECURSIVE MergeBrand(_, _)
\* the while loop that canonicalizes the two-token MercadoPago form
MergeBrand(cleaned, i) ==
    IF i > Len(cleaned) THEN <<>>
    ELSE IF Lower(cleaned[i]) = L_mercado /\ i + 1 <= Len(cleaned)
            /\ Len(cleaned[i + 1]) > 0 /\ Lower(cleaned[i + 1]) = L_pago
         THEN <<V_MercadoPago>> \o MergeBrand(cleaned, i + 2)
         ELSE <<cleaned[i]>> \o MergeBrand(cleaned, i + 1)

RECURSIVE TrimTrailing(_)
\* the while loop that pops trailing numeric reference tokens
TrimTrailing(out) ==
    IF Len(out) > 0 /\ (NOISE_RX(out[Len(out)]) \/ IsDigitStr(out[Len(out)]))
    THEN TrimTrailing(SubSeq(out, 1, Len(out) - 1))
    ELSE out

normalize_tokens(tokens) ==
    IF Len(tokens) = 0 THEN <<>>
    ELSE TrimTrailing(MergeBrand(CleanTokens(tokens), 1))

normalize_description(raw_text) ==
    LET text == collapse_ws(normalize_unicode(raw_text))
    IN  IF Len(text) = 0 THEN <<>>
        ELSE JoinWith(normalize_tokens(SplitWs(Upper(text))), <<" ">>)

\* ------------------------------------------------------------------------
\* The normalizer applied once and then to its own output
\* ------------------------------------------------------------------------

T_12345 == <<"1","2","3","4","5">>
T_REF12 == <<"1","2","3","4","5","6","7","8","9","0","1","2">>
T_oxxo == <<"o","x","x","o">>
T_NETFLIX == <<"N","E","T","F","L","I","X">>
T_spei == <<"s","p","e","i">>
T_dash == <<"1","2","-","3","4">>
T_a1b == <<"a","1","b">>

\* the token alphabet: noise tokens, glossary words, acronyms, the two brand
\* fragments, the forms the normalizer itself produces, and ordinary words
TokenAlphabet ==
    { T_12345, T_REF12, T_dash, K_TRANSF, K_DEBITO, K_INTERES, V_Debito,
      T_spei, K_MERCADO, K_PAGO, K_MERPAGO, V_MercadoPago, T_oxxo, T_a1b }

Separators == { <<" ">>, <<" ", " ">>, <<"\t">>, <<NBSP>> }

MaxTokens == 2

TokenLists == UNION { [1..n -> TokenAlphabet] : n \in 0..MaxTokens }

NormInit ==
    /\ \E toks \in TokenLists, sep \in Separators, pad \in { <<>>, <<" ">> } :
          raw = pad \o JoinWith(toks, sep) \o pad
    /\ once = <<>>
    /\ twice = <<>>
    /\ npc = "raw"
    /\ idRest
    /\ rcRest
    /\ dbRest
    /\ moreRest

\* once = normalize_description(raw)
NormalizeOnce ==
    /\ npc = "raw"
    /\ once' = normalize_description(raw)
    /\ npc' = "once"
    /\ UNCHANGED <<raw, twice, idVars, rcVars, dbVars, moreVars>>

\* normalize_description(once)
NormalizeTwice ==
    /\ npc = "once"
    /\ twice' = normalize_description(once)
    /\ npc' = "twice"
    /\ UNCHANGED <<raw, once, idVars, rcVars, dbVars, moreVars>>

NormNext == NormalizeOnce \/ NormalizeTwice

SpecNorm == NormInit /\ [][NormNext]_vars

\* C10: normalizing a description a second time gives the result of the
\* first normalization
C10_NormalizeIdempotent == npc = "twice" => twice = once

\* a description with the two brand fragments, a glossary word and a trailing
\* reference number has been normalized twice
C10_Witness ==
    /\ npc = "twice"
    /\ once = V_MercadoPago
    /\ raw # once
    /\ Len(raw) > Len(once) + 3

\* ------------------------------------------------------------------------
\* domain/transaction.py
\* ------------------------------------------------------------------------

D_15 == <<"2","0","2","6","-","0","1","-","1","5">>
D_16 == <<"2","0","2","6","-","0","1","-","1","6">>
S_OXXO == <<"O","X","X","O">>
S_oxxo_sp == <<"o","x","x","o"," ">>
S_Oxxo == <<"O","x","x","o">>
S_WALMART == <<"W","A","L","M","A","R","T">>
B_hsbc == <<"h","s","b","c">>
B_pipe == <<"h","s","|","b","c">>
AC_1 == <<"C","C",":","1">>
AC_2 == <<"C","C",":","2">>
CA_hsbc == <<"c","c",":","h","s","b","c">>
CA_other == <<"c","c",":","o","t","h","e","r">>
SRC_data == <<"d","a","t","a">>
SRC_pdf == <<"p","d","f">>
RFC_1 == <<"O","X","X","8","5","0","1","0","1","A","B","C">>
RFC_1sp == <<" ","o","x","x","8","5","0","1","0","1","a","b","c">>
RFC_2 == <<"W","A","L","8","5","0","1","0","1","A","B","C">>

Abs(n) == IF n < 0 THEN -n ELSE n

\* an amount in thousandths rounded to hundredths, as a count of hundredths
RoundCents(a) == (Abs(a) + 5) \div 10

RECURSIVE IntDigits(_)
\* the decimal digits of a natural number
IntDigits(n) ==
    IF n < 10 THEN <<DigitSeq[n + 1]>>
    ELSE IntDigits(n \div 10) \o <<DigitSeq[(n % 10) + 1]>>

\* f"{amount:.1f}"
Fmt1(a) ==
    LET d == (Abs(a) + 50) \div 100
    IN  (IF a < 0 THEN <<"-">> ELSE <<>>) \o IntDigits(d \div 10) \o <<".">>
        \o <<DigitSeq[(d % 10) + 1]>>

\* f"{amount:.2f}": the sign of the float is kept when it rounds to zero
Fmt2(a) ==
    LET c == RoundCents(a)
    IN  (IF a < 0 THEN <<"-">> ELSE <<>>) \o IntDigits(c \div 100) \o <<".">>
        \o <<DigitSeq[((c \div 10) % 10) + 1], DigitSeq[(c % 10) + 1]>>

\* Python's `x or y` on strings
Or(x, y) == IF Len(x) > 0 THEN x ELSE y

\* text_for_id in CanonicalTransaction.id
text_for_id(t) == Lower(Strip(Or(Or(t.normalized_description, t.description), <<>>)))

\* CanonicalTransaction.id.  SHA-256 is taken to be injective, so the id is
\* represented by the string that is hashed.
Id(t) ==
    t.bank_id \o <<"|">> \o t.account_id \o <<"|">> \o t.canonical_account_id \o <<"|">>
    \o t.date \o <<"|">> \o Fmt2(t.amount) \o <<"|">> \o text_for_id(t) \o <<"|">>
    \o Lower(Strip(t.rfc))

CtValues ==
    [ date : {D_15, D_16},
      description : {<<>>, S_OXXO, S_oxxo_sp},
      amount : {-100000, 100000, 100004, 100010},
      bank_id : {B_hsbc, B_pipe},
      account_id : {AC_1, AC_2},
      canonical_account_id : {CA_hsbc, CA_other},
      raw_description : {<<>>, S_OXXO},
      normalized_description : {<<>>, S_Oxxo, S_WALMART},
      source : {SRC_data, SRC_pdf},
      rfc : {<<>>, RFC_1, RFC_1sp} ]

\* the transactions the copies are made of
CtBase ==
    { t \in CtValues :
        /\ t.date = D_15
        /\ t.bank_id = B_hsbc
        /\ t.account_id = AC_1
        /\ t.canonical_account_id = CA_hsbc
        /\ t.source = SRC_data }

IdInit ==
    /\ ct \in CtBase
    /\ ct2 = ct
    /\ changed = "none"
    /\ nmRest
    /\ rcRest
    /\ dbRest
    /\ moreRest

\* dataclasses.replace(ct, field=v) for a value v other than the field's
Replace(field, values) ==
    /\ changed = "none"
    /\ \E v \in values :
          /\ v # ct[field]
          /\ ct2' = [ct EXCEPT ![field] = v]
    /\ changed' = field
    /\ UNCHANGED <<ct, nmVars, rcVars, dbVars, moreVars>>

ReplaceDate == Replace("date", {D_15, D_16})

ReplaceDescription == Replace("description", {<<>>, S_OXXO, S_oxxo_sp})

ReplaceAmount == Replace("amount", {-100000, 100000, 100004, 100010})

ReplaceBankId == Replace("bank_id", {B_hsbc, B_pipe})

ReplaceAccountId == Replace("account_id", {AC_1, AC_2})

ReplaceCanonicalAccountId == Replace("canonical_account_id", {CA_hsbc, CA_other})

ReplaceRawDescription == Replace("raw_description", {<<>>, S_OXXO, S_oxxo_sp})

ReplaceNormalizedDescription == Replace("normalized_description", {<<>>, S_Oxxo, S_WALMART})

ReplaceSource == Replace("source", {SRC_data, SRC_pdf})

ReplaceRfc == Replace("rfc", {<<>>, RFC_1, RFC_1sp})

IdNext ==
    \/ ReplaceDate
    \/ ReplaceDescription
    \/ ReplaceAmount
    \/ ReplaceBankId
    \/ ReplaceAccountId
    \/ ReplaceCanonicalAccountId
    \/ ReplaceRawDescription
    \/ ReplaceNormalizedDescription
    \/ ReplaceSource
    \/ ReplaceRfc

SpecId == IdInit /\ [][IdNext]_vars

\* the fields that enter the hashed string verbatim
VerbatimKeyFields == {"date", "bank_id", "account_id", "canonical_account_id"}

\* C4 (as amended): equal transactions have equal ids; replacing the date,
\* the bank id, the account id or the canonical account id, or moving the
\* amount by 0.01 or more, changes the id; replacing a description changes
\* it exactly when the lower-cased trimmed text (normalized description, or
\* else description) changes, replacing the tax id exactly when its
\* lower-cased trimmed value changes; replacing the raw description or the
\* source never changes it
C4_IdStableSensitive ==
    changed # "rest" =>
        /\ ct2 = ct => Id(ct2) = Id(ct)
        /\ changed \in VerbatimKeyFields => Id(ct2) # Id(ct)
        /\ changed = "amount" /\ Abs(ct2.amount - ct.amount) >= 10 => Id(ct2) # Id(ct)
        /\ changed \in {"description", "normalized_description"} =>
              (Id(ct2) = Id(ct) <=> text_for_id(ct2) = text_for_id(ct))
        /\ changed = "rfc" =>
              (Id(ct2) = Id(ct) <=> Lower(Strip(ct2.rfc)) = Lower(Strip(ct.rfc)))
        /\ changed \in {"raw_description", "source"} => Id(ct2) = Id(ct)

\* the amount of a transaction has been moved by exactly 0.01
C4_Witness ==
    /\ changed = "amount"
    /\ ct.amount = 100000
    /\ ct2.amount = 100010
    /\ Id(ct2) # Id(ct)

\* C4 (as claimed): replacing any single field of the data model (date, raw
\* description, normalized description, amount by 0.01 or more, bank id,
\* account id, canonical account id, source, tax id) changes the id
C4_AnyFieldChangesId ==
    /\ changed \in {"date", "raw_description", "normalized_description", "bank_id",
                    "account_id", "canonical_account_id", "source", "rfc"}
          => Id(ct2) # Id(ct)
    /\ changed = "amount" /\ Abs(ct2.amount - ct.amount) >= 10 => Id(ct2) # Id(ct)

\* ------------------------------------------------------------------------
\* import_hsbc_cfdi_firefly.py: apply_xml_reference_to_pdf
\* ------------------------------------------------------------------------

S_OXXO_QRO == <<"O","X","X","O"," ","Q","R","O">>
S_oxxo_qro2 == <<"o","x","x","o"," "," ","q","r","o">>
H_1234 == <<"1","2","3","4">>
H_9999 == <<"9","9","9","9">>
SRC_xml == <<"x","m","l">>
LINE_1 == <<"1","5","/","0","1"," ","O","X","X","O"," ","1","0","0",".","0","0">>

\* TxnRaw(date, description, amount, rfc, account_hint, source, page, source_line)
TxnRaw(date, description, amount, rfc, account_hint, source, page, source_line) ==
    [ date |-> date, description |-> description, amount |-> amount, rfc |-> rfc,
      account_hint |-> account_hint, source |-> source, page |-> page,
      source_line |-> source_line ]

\* rows read from the statement PDF
PdfPool ==
    { TxnRaw(D_15, S_OXXO, -100000, <<>>, <<>>, SRC_pdf, 1, LINE_1),
      TxnRaw(D_15, S_oxxo_qro2, -100004, RFC_2, <<>>, SRC_pdf, 1, LINE_1),
      TxnRaw(D_15, S_OXXO, 100000, <<>>, H_9999, SRC_pdf, 2, LINE_1),
      TxnRaw(D_16, <<>>, -100000, <<>>, <<>>, SRC_pdf, 1, LINE_1),
      TxnRaw(D_15, S_WALMART, -250000, <<>>, <<>>, SRC_pdf, 1, LINE_1) }

\* rows read from the CFDI XML
XmlPool ==
    { TxnRaw(D_15, S_OXXO, -100000, RFC_1, H_1234, SRC_xml, 0, <<>>),
      TxnRaw(D_15, S_OXXO_QRO, -99996, <<>>, <<>>, SRC_xml, 0, <<>>),
      TxnRaw(D_15, S_OXXO, 100000, RFC_1, <<>>, SRC_xml, 0, <<>>),
      TxnRaw(D_16, S_WALMART, -100000, RFC_2, H_1234, SRC_xml, 0, <<>>),
      TxnRaw(D_15, S_WALMART, -250000, <<>>, H_1234, SRC_xml, 0, <<>>) }

MaxPdf == 2

MaxXml == 2

ListsOver(pool, n) == UNION { [1..k -> pool] : k \in 0..n }

\* txn_match_key: (date, round(abs(amount), 2)), the amount in hundredths
txn_match_key(txn) == <<txn.date, RoundCents(txn.amount)>>

\* xml_index[key]: the positions of the xml rows with that key, ascending
xml_index(xmls, key) == { idx \in 1..Len(xmls) : txn_match_key(xmls[idx]) = key }

\* a candidate search that takes the last unused entry of the bucket
LastCandidate(xmls, key, used) ==
    LET free == xml_index(xmls, key) \ used
    IN  IF free = {} THEN 0 ELSE SetMax(free)

\* the inner for loop: the first entry of the bucket that is not in
\* used_xml, 0 when there is none
Candidate(xmls, key, used) ==
    LET free == xml_index(xmls, key) \ used
    IN  IF free = {} THEN 0 ELSE SetMin(free)

\* a merge that keeps the pdf row's own rfc and account_hint when it has them
MergedRowPdfFirst(pdf, xml_txn) ==
    TxnRaw(pdf.date, Or(pdf.description, xml_txn.description), pdf.amount,
           Or(pdf.rfc, xml_txn.rfc), Or(pdf.account_hint, xml_txn.account_hint),
           pdf.source, 0, <<>>)

\* the TxnRaw appended to merged on a match; page and source_line take the
\* dataclass defaults
MergedRow(pdf, xml_txn) ==
    TxnRaw(pdf.date, Or(pdf.description, xml_txn.description), pdf.amount,
           Or(xml_txn.rfc, pdf.rfc), Or(xml_txn.account_hint, pdf.account_hint),
           pdf.source, 0, <<>>)

\* a comparison that does not fold the case of the descriptions
IsDifferenceCaseSensitive(pdf, xml_txn) ==
    \/ strip_ws(pdf.description) # strip_ws(xml_txn.description)
    \/ Abs(pdf.amount - xml_txn.amount) > 10

\* a comparison without the 0.01 tolerance on the amounts
IsDifferenceNoTolerance(pdf, xml_txn) ==
    \/ Lower(strip_ws(pdf.description)) # Lower(strip_ws(xml_txn.description))
    \/ Abs(pdf.amount - xml_txn.amount) > 0

\* the condition under which a difference is recorded (0.01 is 10 thousandths)
IsDifference(pdf, xml_txn) ==
    \/ Lower(strip_ws(pdf.description)) # Lower(strip_ws(xml_txn.description))
    \/ Abs(pdf.amount - xml_txn.amount) > 10

\* the entry appended to diffs
DiffEntry(pdf, xml_txn) ==
    [ date |-> pdf.date, pdf_amount |-> pdf.amount, xml_amount |-> xml_txn.amount,
      pdf_desc |-> strip_ws(pdf.description), xml_desc |-> strip_ws(xml_txn.description) ]

\* a match count taken from the length of the merged list
MatchedFromMerged(pdfs, mrg, only) == Len(mrg)

\* summary["matched"]
Matched(pdfs, mrg, only) == Len(pdfs) - Len(only)

RECURSIVE XmlOnlyFrom(_, _, _)
\* [txn for idx, txn in enumerate(xml_txns) if idx not in used_xml]
XmlOnlyFrom(xmls, used, idx) ==
    IF idx > Len(xmls) THEN <<>>
    ELSE (IF idx \in used THEN <<>> ELSE <<xmls[idx]>>) \o XmlOnlyFrom(xmls, used, idx + 1)

ReconInit ==
    /\ pdf_txns \in ListsOver(PdfPool, MaxPdf)
    /\ xml_txns \in ListsOver(XmlPool, MaxXml)
    /\ merged = <<>>
    /\ pdf_only = <<>>
    /\ diffs = <<>>
    /\ used_xml = {}
    /\ claimed = <<>>
    /\ rpc = "loop"
    /\ summary = <<>>
    /\ nmRest
    /\ idRest
    /\ dbRest
    /\ moreRest

\* an iteration that finds a candidate and does not add it to used_xml
ReconMatch_NoMark ==
    /\ rpc = "loop"
    /\ Len(merged) < Len(pdf_txns)
    /\ LET pdf == pdf_txns[Len(merged) + 1]
           idx == Candidate(xml_txns, txn_match_key(pdf), used_xml)
       IN  /\ idx # 0
           /\ claimed' = Append(claimed, idx)
           /\ merged' = Append(merged, MergedRow(pdf, xml_txns[idx]))
           /\ diffs' = IF IsDifference(pdf, xml_txns[idx])
                       THEN Append(diffs, DiffEntry(pdf, xml_txns[idx]))
                       ELSE diffs
    /\ UNCHANGED <<pdf_txns, xml_txns, pdf_only, used_xml, rpc, summary, nmVars, idVars, dbVars, moreVars>>

\* one iteration of `for pdf in pdf_txns` that finds a candidate
ReconMatch ==
    /\ rpc = "loop"
    /\ Len(merged) < Len(pdf_txns)
    /\ LET pdf == pdf_txns[Len(merged) + 1]
           idx == Candidate(xml_txns, txn_match_key(pdf), used_xml)
       IN  /\ idx # 0
           /\ used_xml' = used_xml \cup {idx}
           /\ claimed' = Append(claimed, idx)
           /\ merged' = Append(merged, MergedRow(pdf, xml_txns[idx]))
           /\ diffs' = IF IsDifference(pdf, xml_txns[idx])
                       THEN Append(diffs, DiffEntry(pdf, xml_txns[idx]))
                       ELSE diffs
    /\ UNCHANGED <<pdf_txns, xml_txns, pdf_only, rpc, summary, nmVars, idVars, dbVars, moreVars>>

\* one iteration of `for pdf in pdf_txns` that finds no candidate
ReconMiss ==
    /\ rpc = "loop"
    /\ Len(merged) < Len(pdf_txns)
    /\ LET pdf == pdf_txns[Len(merged) + 1]
           idx == Candidate(xml_txns, txn_match_key(pdf), used_xml)
       IN  /\ idx = 0
           /\ claimed' = Append(claimed, 0)
           /\ merged' = Append(merged, pdf)
           /\ pdf_only' = Append(pdf_only, pdf)
    /\ UNCHANGED <<pdf_txns, xml_txns, diffs, used_xml, rpc, summary, nmVars, idVars, dbVars, moreVars>>

\* the end of the loop: xml_only and the summary are built and returned
ReconReturn ==
    /\ rpc = "loop"
    /\ Len(merged) = Len(pdf_txns)
    /\ summary' = [ matched |-> Matched(pdf_txns, merged, pdf_only),
                    total_pdf |-> Len(pdf_txns),
                    total_xml |-> Len(xml_txns),
                    pdf_only |-> pdf_only,
                    xml_only |-> XmlOnlyFrom(xml_txns, used_xml, 1),
                    differences |-> diffs ]
    /\ rpc' = "done"
    /\ UNCHANGED <<pdf_txns, xml_txns, merged, pdf_only, diffs, used_xml, claimed, nmVars, idVars, dbVars, moreVars>>

ReconNext == ReconMatch \/ ReconMiss \/ ReconReturn

SpecRecon == ReconInit /\ [][ReconNext]_vars

\* --- properties of the reconciler ---

KeysOf(txns) == { txn_match_key(txns[k]) : k \in 1..Len(txns) }

RowsWithKey(txns, key) == { k \in 1..Len(txns) : txn_match_key(txns[k]) = key }

\* the keys present in both lists
Overlap == KeysOf(pdf_txns) \cap KeysOf(xml_txns)

\* every overlapping key belongs to one primary and one secondary row
OneToOne ==
    \A key \in Overlap :
        /\ Cardinality(RowsWithKey(pdf_txns, key)) = 1
        /\ Cardinality(RowsWithKey(xml_txns, key)) = 1

SameKeyPairs ==
    { pr \in (1..Len(pdf_txns)) \X (1..Len(xml_txns)) :
        txn_match_key(pdf_txns[pr[1]]) = txn_match_key(xml_txns[pr[2]]) }

CaseFold(text) == Lower(strip_ws(text))

DescriptionsMatch ==
    \A pr \in SameKeyPairs :
        CaseFold(pdf_txns[pr[1]].description) = CaseFold(xml_txns[pr[2]].description)

AmountsWithinTolerance ==
    \A pr \in SameKeyPairs :
        Abs(pdf_txns[pr[1]].amount - xml_txns[pr[2]].amount) <= 10

ReconTotals(K) ==
    /\ summary.matched = K
    /\ Len(summary.pdf_only) = Len(pdf_txns) - K
    /\ Len(summary.xml_only) = Len(xml_txns) - K
    /\ Len(summary.differences) = 0

\* C5 (as amended): when exactly K keys overlap one-to-one and the
\* overlapping rows have matching descriptions and amounts within 0.01 of
\* each other, the summary reports matched = K, N-K primary-only rows, M-K
\* secondary-only rows and no differences
C5_ReconcilerTotals ==
    rpc = "done" /\ OneToOne /\ DescriptionsMatch /\ AmountsWithinTolerance
        => ReconTotals(Cardinality(Overlap))

\* two rows on each side, one key in common, descriptions equal up to case
\* and spacing, amounts 0.008 apart
C5_Witness ==
    /\ rpc = "done"
    /\ OneToOne /\ DescriptionsMatch /\ AmountsWithinTolerance
    /\ Len(pdf_txns) = 2 /\ Len(xml_txns) = 2
    /\ Cardinality(Overlap) = 1
    /\ \E pr \in SameKeyPairs :
          /\ pdf_txns[pr[1]].description # xml_txns[pr[2]].description
          /\ pdf_txns[pr[1]].amount # xml_txns[pr[2]].amount
    /\ summary.matched = 1

\* C5 (as claimed): matching descriptions alone give a summary without
\* differences
C5_TotalsFromDescriptionsAlone ==
    rpc = "done" /\ OneToOne /\ DescriptionsMatch
        => ReconTotals(Cardinality(Overlap))

MatchedPositions == { k \in 1..Len(claimed) : claimed[k] # 0 }

\* C6 (as amended): a merged row has the primary row's date, amount and
\* source; its description is the primary's unless that is empty, then the
\* secondary's; its tax id and account hint are the secondary's unless the
\* secondary's value is empty, then the primary's
C6_MergedRowFields ==
    \A k \in MatchedPositions :
        LET p == pdf_txns[k]
            x == xml_txns[claimed[k]]
            m == merged[k]
        IN  /\ m.date = p.date
            /\ m.amount = p.amount
            /\ m.source = p.source
            /\ m.description = (IF p.description # <<>> THEN p.description ELSE x.description)
            /\ m.rfc = (IF x.rfc # <<>> THEN x.rfc ELSE p.rfc)
            /\ m.account_hint = (IF x.account_hint # <<>> THEN x.account_hint ELSE p.account_hint)

\* a primary row with a tax id of its own has been merged with a secondary
\* row that carries another tax id
C6_Witness ==
    \E k \in MatchedPositions :
        /\ pdf_txns[k].rfc # <<>>
        /\ xml_txns[claimed[k]].rfc # <<>>
        /\ xml_txns[claimed[k]].rfc # pdf_txns[k].rfc
        /\ merged[k].rfc = xml_txns[claimed[k]].rfc

\* C6 (as claimed): the merged row has the primary row's date, amount and
\* description, and takes the tax id and the account hint from the secondary
\* row only where the primary row's own value is empty
C6_PrimaryValuesKept ==
    \A k \in MatchedPositions :
        LET p == pdf_txns[k]
            x == xml_txns[claimed[k]]
            m == merged[k]
        IN  /\ m.date = p.date
            /\ m.amount = p.amount
            /\ m.description = p.description
            /\ m.rfc = (IF p.rfc # <<>> THEN p.rfc ELSE x.rfc)
            /\ m.account_hint = (IF p.account_hint # <<>> THEN p.account_hint ELSE x.account_hint)

\* the secondary positions taken by the primary rows before position k
TakenBefore(k) == { claimed[j] : j \in 1..(k - 1) } \ {0}

RECURSIVE UnmatchedRows(_)
\* the primary rows that found no candidate, among the first k, in order
UnmatchedRows(k) ==
    IF k = 0 THEN <<>>
    ELSE UnmatchedRows(k - 1) \o (IF claimed[k] = 0 THEN <<pdf_txns[k]>> ELSE <<>>)

\* C7: primary rows are visited in order; each takes the lowest-positioned
\* secondary row with its key that no earlier primary row took, and is
\* primary-only exactly when there is none; no secondary row is taken twice
C7_GreedyFirstUnconsumed ==
    /\ Len(claimed) = Len(merged)
    /\ \A k \in 1..Len(claimed) :
          LET free == RowsWithKey(xml_txns, txn_match_key(pdf_txns[k])) \ TakenBefore(k)
          IN  /\ free = {} => claimed[k] = 0
              /\ free # {} => claimed[k] \in free /\ \A idx \in free : claimed[k] <= idx
    /\ \A j, k \in MatchedPositions : j # k => claimed[j] # claimed[k]
    /\ used_xml = { claimed[k] : k \in MatchedPositions }
    /\ pdf_only = UnmatchedRows(Len(claimed))

\* two primary rows with one key took the two secondary rows with that key
\* in list order
C7_Witness ==
    /\ rpc = "done"
    /\ claimed = <<1, 2>>
    /\ txn_match_key(pdf_txns[1]) = txn_match_key(pdf_txns[2])
    /\ xml_txns[1] # xml_txns[2]

\* the matched pairs for which a difference has to be recorded
DifferingPositions ==
    { k \in MatchedPositions :
        \/ Abs(pdf_txns[k].amount - xml_txns[claimed[k]].amount) > 10
        \/ CaseFold(pdf_txns[k].description) # CaseFold(xml_txns[claimed[k]].description) }

\* C8: a difference entry is recorded for a matched pair exactly when the
\* amounts are more than 0.01 apart or the whitespace-collapsed descriptions
\* differ case-insensitively
C8_DifferenceExactlyWhen ==
    /\ Len(diffs) = Cardinality(DifferingPositions)
    /\ \A n \in 1..Len(diffs) :
          \E k \in DifferingPositions :
              /\ diffs[n].pdf_amount = pdf_txns[k].amount
              /\ diffs[n].xml_amount = xml_txns[claimed[k]].amount
              /\ diffs[n].pdf_desc = strip_ws(pdf_txns[k].description)
              /\ diffs[n].xml_desc = strip_ws(xml_txns[claimed[k]].description)
    /\ rpc = "done" => summary.differences = diffs

\* of two matched pairs, the one whose descriptions differ only in case and
\* spacing left no entry and the one with opposite amounts left one
C8_Witness ==
    /\ rpc = "done"
    /\ MatchedPositions = {1, 2}
    /\ pdf_txns[1].description # xml_txns[claimed[1]].description
    /\ DifferingPositions = {2}
    /\ Len(summary.differences) = 1

\* C9: against an empty secondary list every primary row is returned
\* unchanged and in order and is primary-only, nothing is matched, and the
\* secondary-only list and the differences are empty
C9_EmptySecondary ==
    rpc = "done" /\ xml_txns = <<>> =>
        /\ merged = pdf_txns
        /\ summary.pdf_only = pdf_txns
        /\ summary.matched = 0
        /\ summary.total_pdf = Len(pdf_txns)
        /\ summary.total_xml = 0
        /\ summary.xml_only = <<>>
        /\ summary.differences = <<>>

\* two primary rows have been reconciled against an empty secondary list
C9_Witness ==
    /\ rpc = "done"
    /\ xml_txns = <<>>
    /\ Len(pdf_txns) = 2
    /\ Len(summary.pdf_only) = 2

\* the primary rows that took the secondary row at position idx
ConsumersOf(idx) == { k \in 1..Len(claimed) : claimed[k] = idx }

\* the secondary rows no primary row took, in order
Unconsumed == SelectSeq([ idx \in 1..Len(xml_txns) |-> idx ], LAMBDA idx : ConsumersOf(idx) = {})

\* C27: for primary lists of length N and secondary lists of length M the
\* merged list has N rows in the primary's order (each with its primary
\* row's date, amount and source), matched + len(primary-only) = N,
\* matched + len(secondary-only) = M, and every secondary row is either
\* taken by exactly one match or listed in secondary-only, never both and
\* never neither.
C27_ReconcilerConservation ==
    rpc = "done" =>
        /\ Len(merged) = Len(pdf_txns)
        /\ \A k \in 1..Len(pdf_txns) :
              /\ merged[k].date = pdf_txns[k].date
              /\ merged[k].amount = pdf_txns[k].amount
              /\ merged[k].source = pdf_txns[k].source
        /\ summary.matched + Len(summary.pdf_only) = Len(pdf_txns)
        /\ summary.matched + Len(summary.xml_only) = Len(xml_txns)
        /\ summary.matched = Cardinality(MatchedPositions)
        /\ \A idx \in 1..Len(xml_txns) : Cardinality(ConsumersOf(idx)) <= 1
        /\ Len(summary.xml_only) = Len(Unconsumed)
        /\ \A n \in 1..Len(Unconsumed) : summary.xml_only[n] = xml_txns[Unconsumed[n]]

\* two primary rows with one key met a single secondary row with that key
\* beside another secondary row: one match, one primary-only row, one
\* secondary-only row
C27_Witness ==
    /\ rpc = "done"
    /\ Len(pdf_txns) = 2 /\ Len(xml_txns) = 2
    /\ txn_match_key(pdf_txns[1]) = txn_match_key(pdf_txns[2])
    /\ Cardinality(RowsWithKey(xml_txns, txn_match_key(pdf_txns[1]))) = 1
    /\ summary.matched = 1
    /\ Len(summary.pdf_only) = 1
    /\ Len(summary.xml_only) = 1

\* ------------------------------------------------------------------------
\* services/db_service.py, account_mapping.py, csv_to_db_migrator.py
\* ------------------------------------------------------------------------

P_hsbc == <<"h","s","b","c">>
P_fa == <<"f","i","r","e","f","l","y","_","a",".","c","s","v">>
P_fb == <<"f","i","r","e","f","l","y","_","b",".","c","s","v">>
DATA_DIR == <<"d","a","t","a">>
S_oxxo_qro == <<"o","x","x","o"," ","q","r","o">>
S_NETFLIX == <<"N","E","T","F","L","I","X">>
CA_gold == <<"c","c",":","h","s","b","c","_","g","o","l","d">>
CC_PREFIX == <<"c","c",":">>
CC_UNKNOWN == <<"c","c",":","u","n","k","n","o","w","n">>
N_HSBC_Gold == <<"H","S","B","C"," ","G","o","l","d">>
UNKNOWN == <<"u","n","k","n","o","w","n">>

\* SQL NULL / Python None in an integer column and in a text column
NoneInt == -1

NoneText == ""

\* the two CSV files below data_dir, as the parts of their relative paths
CsvA == <<P_hsbc, P_fa>>

CsvB == <<P_hsbc, P_fb>>

\* sorted(data_dir.glob("**/firefly*.csv"))
CsvOrder == <<CsvA, CsvB>>

Paths == {CsvA, CsvB}

\* str(csv_path)
PathStr(path) == JoinWith(<<DATA_DIR>> \o path, <<"/">>)

\* _infer_bank_id_from_csv
infer_bank_id_from_csv(path) == IF Len(path) > 0 THEN path[1] ELSE UNKNOWN

\* one row of a firefly CSV; numeric says whether float() accepts the
\* amount, writable whether the database accepts the INSERT of the row (it
\* raises sqlite3.Error otherwise)
CsvRow(date, amount, numeric, writable, description, source_name) ==
    [ date |-> date, amount |-> amount, numeric |-> numeric, writable |-> writable,
      description |-> description, source_name |-> source_name, currency_code |-> "MXN" ]

RowPool ==
    { CsvRow(D_15, 100000, TRUE, TRUE, S_OXXO_QRO, AC_2),
      CsvRow(D_15, 100004, TRUE, TRUE, S_oxxo_qro, AC_1),
      CsvRow(D_16, 250000, TRUE, TRUE, S_NETFLIX, AC_1),
      CsvRow(D_16, 0, FALSE, TRUE, S_NETFLIX, AC_1),
      CsvRow(D_16, 250000, TRUE, FALSE, S_NETFLIX, AC_1) }

\* the number of CSV rows on disk, over all files
MaxRows == 2

\* the number of calls of migrate_csvs_to_db
MaxRuns == 2

\* a file is missing, present but rejected by pandas.read_csv, or a list of
\* rows
FileValues ==
    { [exists |-> FALSE, readable |-> FALSE, rows |-> <<>>],
      [exists |-> TRUE, readable |-> FALSE, rows |-> <<>>] }
    \cup { [exists |-> TRUE, readable |-> TRUE, rows |-> r] : r \in ListsOver(RowPool, MaxRows) }

FsStates ==
    { f \in [Paths -> FileValues] : Len(f[CsvA].rows) + Len(f[CsvB].rows) <= MaxRows }

\* the csv_paths argument; the empty list stands for None as well
CsvPathArgs == { <<>>, <<CsvA>>, <<CsvB, CsvA>> }

RECURSIVE ExistingFrom(_, _, _)
ExistingFrom(files, order, k) ==
    IF k > Len(order) THEN <<>>
    ELSE (IF files[order[k]].exists THEN <<order[k]>> ELSE <<>>) \o ExistingFrom(files, order, k + 1)

\* discover_firefly_csvs
discover_firefly_csvs(files) == ExistingFrom(files, CsvOrder, 1)

\* canonical_accounts of accounts.yml, in file order
ACCOUNTS_CATALOG ==
    << [ canonical_id |-> CA_gold, bank_ids |-> <<P_hsbc>>, account_ids |-> <<AC_1>>,
         display_name |-> N_HSBC_Gold, type |-> "credit_card", closing_day |-> 20,
         currency |-> "MXN" ] >>

\* account_mapping._normalize
Normalize(value) == Lower(Strip(value))

RECURSIVE ResolveFrom(_, _, _)
ResolveFrom(bank_norm, account_norm, k) ==
    IF k > Len(ACCOUNTS_CATALOG)
    THEN IF Len(bank_norm) > 0 THEN CC_PREFIX \o bank_norm ELSE CC_UNKNOWN
    ELSE LET entry == ACCOUNTS_CATALOG[k]
             in_banks == \E j \in 1..Len(entry.bank_ids) : Normalize(entry.bank_ids[j]) = bank_norm
             in_accts == \E j \in 1..Len(entry.account_ids) : Normalize(entry.account_ids[j]) = account_norm
         IN  IF in_banks /\ (Len(entry.account_ids) = 0 \/ in_accts)
             THEN entry.canonical_id
             ELSE ResolveFrom(bank_norm, account_norm, k + 1)

\* resolve_canonical_account_id
resolve_canonical_account_id(bank_id, account_id) ==
    ResolveFrom(Normalize(bank_id), Normalize(account_id), 1)

\* a table with one row put at key, replacing the row that was there
Put(table, key, row) ==
    [k \in DOMAIN table \cup {key} |-> IF k = key THEN row ELSE table[k]]

\* INSERT OR IGNORE in place of the upsert: a known account keeps the values
\* it was first written with
upsert_account_KeepFirst(accts, account_id, display_name, account_type, bank_id, closing_day, currency) ==
    IF account_id \in DOMAIN accts THEN accts
    ELSE Put(accts, account_id,
             [ account_id |-> account_id, display_name |-> display_name, type |-> account_type,
               bank_id |-> bank_id, closing_day |-> closing_day, currency |-> currency ])

\* DatabaseService.upsert_account
upsert_account(accts, account_id, display_name, account_type, bank_id, closing_day, currency) ==
    Put(accts, account_id,
        [ account_id |-> account_id, display_name |-> display_name, type |-> account_type,
          bank_id |-> bank_id, closing_day |-> closing_day, currency |-> currency ])

RECURSIVE SeedFrom(_, _)
SeedFrom(accts, k) ==
    IF k > Len(ACCOUNTS_CATALOG) THEN accts
    ELSE LET entry == ACCOUNTS_CATALOG[k]
         IN  SeedFrom(upsert_account(accts, entry.canonical_id, entry.display_name, entry.type,
                                     IF Len(entry.bank_ids) > 0 THEN entry.bank_ids[1] ELSE <<>>,
                                     entry.closing_day, entry.currency),
                      k + 1)

\* _seed_accounts
seed_accounts(accts) == SeedFrom(accts, 1)

\* DatabaseService.record_import: the row appended to imports; its
\* import_id is its position
ImportRow(bank_id, source_file, status, row_count) ==
    [ bank_id |-> bank_id, source_file |-> source_file, status |-> status,
      row_count |-> row_count, error |-> NoneText ]

\* an UPDATE without its WHERE clause: every import is rewritten
update_import_status_EveryRow(imps, import_id, status, row_count, error) ==
    [ i \in DOMAIN imps |->
        [ imps[i] EXCEPT !.status = status,
                         !.row_count = IF row_count = NoneInt THEN @ ELSE row_count,
                         !.error = IF error = NoneText THEN @ ELSE error ] ]

\* DatabaseService.update_import_status, with its COALESCE on row_count and error
update_import_status(imps, import_id, status, row_count, error) ==
    [ imps EXCEPT ![import_id] =
        [ @ EXCEPT !.status = status,
                   !.row_count = IF row_count = NoneInt THEN @ ELSE row_count,
                   !.error = IF error = NoneText THEN @ ELSE error ] ]

\* DatabaseService.build_source_hash; as for Id, the hashed string stands
\* for its digest
build_source_hash(bank_id, source_file, date, amount, description) ==
    bank_id \o <<"|">> \o source_file \o <<"|">> \o date \o <<"|">> \o Fmt2(amount)
    \o <<"|">> \o Lower(Strip(description))

\* the txn dict built for one CSV row (the tag-derived and pass-through
\* columns merchant, statement_period, category, tags, transaction_type and
\* destination_name are left out: nothing below reads them)
TxnOf(row, bank_id, path) ==
    LET source_name == Strip(row.source_name)
        raw_description == Strip(row.description)
    IN  [ date |-> Strip(row.date),
          amount |-> row.amount,
          currency |-> row.currency_code,
          description |-> raw_description,
          raw_description |-> raw_description,
          normalized_description |-> normalize_description(raw_description),
          account_id |-> source_name,
          canonical_account_id |-> resolve_canonical_account_id(bank_id, source_name),
          bank_id |-> bank_id,
          source_name |-> source_name,
          source_file |-> PathStr(path) ]

\* the source_hash insert_transaction computes for a txn without one
SourceHashOf(txn) ==
    build_source_hash(txn.bank_id, txn.source_file, txn.date, txn.amount, txn.description)

\* the row insert_transaction writes: the columns of its INSERT statement;
\* normalized_description is not among them and keeps the column default
StoredRow(txn, import_id) ==
    [ source_hash |-> SourceHashOf(txn),
      date |-> txn.date,
      amount |-> txn.amount,
      currency |-> txn.currency,
      description |-> txn.description,
      account_id |-> txn.account_id,
      canonical_account_id |-> txn.canonical_account_id,
      bank_id |-> txn.bank_id,
      source_file |-> txn.source_file,
      import_id |-> import_id,
      normalized_description |-> <<>> ]

\* an INSERT OR REPLACE in place of the INSERT OR IGNORE
InsertOrReplace(store, row) == Put(store, row.source_hash, row)

\* INSERT OR IGNORE INTO transactions: the table after the statement
InsertOrIgnore(store, row) ==
    IF row.source_hash \in DOMAIN store THEN store ELSE Put(store, row.source_hash, row)

\* a return value that is true whether or not a row was written
RowWrittenAlways(store, row) == TRUE

\* cur.rowcount > 0
RowWritten(store, row) == row.source_hash \notin DOMAIN store

\* a backfill that also replaces the description of the rows it fills
BackfillOverDescription(store) ==
    [ h \in DOMAIN store |->
        IF store[h].normalized_description = <<>>
        THEN [ store[h] EXCEPT !.normalized_description = normalize_description(store[h].description),
                               !.description = normalize_description(store[h].description) ]
        ELSE store[h] ]

\* DatabaseService.backfill_normalized_descriptions: the table afterwards
Backfill(store) ==
    [ h \in DOMAIN store |->
        IF store[h].normalized_description = <<>>
        THEN [ store[h] EXCEPT !.normalized_description = normalize_description(store[h].description) ]
        ELSE store[h] ]

\* DatabaseService.backfill_normalized_descriptions: the count it returns
BackfillCount(store) ==
    Cardinality({ h \in DOMAIN store : store[h].normalized_description = <<>> })

IdleRun ==
    [ files |-> <<>>, fi |-> 0, ri |-> 0, import_id |-> 0, rows_inserted |-> 0,
      rows_seen |-> 0, files_processed |-> 0, inserted_for_file |-> 0 ]

DbInit ==
    /\ fs \in FsStates
    /\ accounts = <<>>
    /\ imports = <<>>
    /\ transactions = <<>>
    /\ dpc = "idle"
    /\ run = IdleRun
    /\ returned = <<>>
    /\ seen = {}
    /\ last_insert = [call |-> 0, source_hash |-> <<>>, inserted |-> FALSE, import_id |-> 0]
    /\ nmRest
    /\ idRest
    /\ rcRest
    /\ moreRest

others == <<nmVars, idVars, rcVars, moreVars>>

\* migrate_csvs_to_db up to its loop: the accounts are seeded and the file
\* list is fixed
MigrateStart ==
    /\ dpc = "idle"
    /\ Len(returned) < MaxRuns
    /\ \E csv_paths \in CsvPathArgs :
          run' = [ IdleRun EXCEPT !.files = IF Len(csv_paths) > 0 THEN csv_paths
                                           ELSE discover_firefly_csvs(fs),
                                  !.fi = 1 ]
    /\ accounts' = seed_accounts(accounts)
    /\ dpc' = "file"
    /\ UNCHANGED <<fs, imports, transactions, returned, seen, last_insert, others>>

\* `if not csv_path.exists(): continue`
SkipMissing ==
    /\ dpc = "file"
    /\ run.fi <= Len(run.files)
    /\ ~fs[run.files[run.fi]].exists
    /\ run' = [run EXCEPT !.fi = @ + 1]
    /\ UNCHANGED <<fs, accounts, imports, transactions, dpc, returned, seen, last_insert, others>>

\* record_import(status="started") for the next file
RecordImport ==
    /\ dpc = "file"
    /\ run.fi <= Len(run.files)
    /\ fs[run.files[run.fi]].exists
    /\ LET csv_path == run.files[run.fi]
       IN  imports' = Append(imports, ImportRow(infer_bank_id_from_csv(csv_path),
                                                PathStr(csv_path), "started", 0))
    /\ run' = [run EXCEPT !.import_id = Len(imports) + 1, !.ri = 1, !.inserted_for_file = 0]
    /\ dpc' = "row"
    /\ UNCHANGED <<fs, accounts, transactions, returned, seen, last_insert, others>>

\* the CanonicalTransaction of a txn dict (the CSV has no tax id column)
CanonicalOf(txn) ==
    [ date |-> txn.date, description |-> txn.description, amount |-> txn.amount,
      bank_id |-> txn.bank_id, account_id |-> txn.account_id,
      canonical_account_id |-> txn.canonical_account_id,
      raw_description |-> txn.raw_description,
      normalized_description |-> txn.normalized_description,
      source |-> SRC_data, rfc |-> <<>> ]

CurrentPath == run.files[run.fi]

CurrentRow == fs[CurrentPath].rows[run.ri]

\* an upsert for the row that passes on the closing day already stored
RowAccounts_KeepClosingDay(txn) ==
    upsert_account(accounts, txn.canonical_account_id,
                   Or(txn.source_name, txn.canonical_account_id), "credit_card",
                   txn.bank_id,
                   IF txn.canonical_account_id \in DOMAIN accounts
                   THEN accounts[txn.canonical_account_id].closing_day ELSE NoneInt,
                   txn.currency)

\* the account upsert made for every row, before its amount is read
RowAccounts(txn) ==
    upsert_account(accounts, txn.canonical_account_id,
                   Or(txn.source_name, txn.canonical_account_id), "credit_card",
                   txn.bank_id, NoneInt, txn.currency)

\* pd.read_csv raises: the except clause marks the import failed and the
\* loop goes on to the next file
ReadFails ==
    /\ dpc = "row"
    /\ ~fs[CurrentPath].readable
    /\ imports' = update_import_status(imports, run.import_id, "failed", NoneInt, "ParserError")
    /\ run' = [run EXCEPT !.fi = @ + 1]
    /\ dpc' = "file"
    /\ UNCHANGED <<fs, accounts, transactions, returned, seen, last_insert, others>>

\* one iteration of `for _, row in frame.iterrows()` that runs to its end
ProcessRow ==
    /\ dpc = "row"
    /\ fs[CurrentPath].readable
    /\ run.ri <= Len(fs[CurrentPath].rows)
    /\ CurrentRow.numeric
    /\ CurrentRow.writable
    /\ LET txn == TxnOf(CurrentRow, infer_bank_id_from_csv(CurrentPath), CurrentPath)
           row == StoredRow(txn, run.import_id)
           inserted == RowWritten(transactions, row)
       IN  /\ accounts' = RowAccounts(txn)
           /\ transactions' = InsertOrIgnore(transactions, row)
           /\ run' = [run EXCEPT !.ri = @ + 1,
                                 !.rows_seen = @ + 1,
                                 !.rows_inserted = IF inserted THEN @ + 1 ELSE @,
                                 !.inserted_for_file = IF inserted THEN @ + 1 ELSE @]
           /\ seen' = seen \cup {Id(CanonicalOf(txn))}
           /\ last_insert' = [ call |-> last_insert.call + 1, source_hash |-> row.source_hash,
                               inserted |-> inserted, import_id |-> run.import_id ]
    /\ UNCHANGED <<fs, imports, dpc, returned, others>>

\* the exception of a bad row is not caught inside the loop over the
\* files: the import is marked failed and the remaining files are dropped
ProcessBadRowAborts ==
    /\ dpc = "row"
    /\ fs[CurrentPath].readable
    /\ run.ri <= Len(fs[CurrentPath].rows)
    /\ ~CurrentRow.numeric
    /\ LET txn == TxnOf(CurrentRow, infer_bank_id_from_csv(CurrentPath), CurrentPath)
       IN  accounts' = RowAccounts(txn)
    /\ imports' = update_import_status(imports, run.import_id, "failed", NoneInt, "ValueError")
    /\ run' = [run EXCEPT !.rows_seen = @ + 1, !.fi = Len(run.files) + 1]
    /\ dpc' = "file"
    /\ UNCHANGED <<fs, transactions, returned, seen, last_insert, others>>

\* an iteration in which float(row["amount"]) raises: the except clause
\* marks the import failed and the loop goes on to the next file
ProcessBadRow ==
    /\ dpc = "row"
    /\ fs[CurrentPath].readable
    /\ run.ri <= Len(fs[CurrentPath].rows)
    /\ ~CurrentRow.numeric
    /\ LET txn == TxnOf(CurrentRow, infer_bank_id_from_csv(CurrentPath), CurrentPath)
       IN  accounts' = RowAccounts(txn)
    /\ imports' = update_import_status(imports, run.import_id, "failed", NoneInt, "ValueError")
    /\ run' = [run EXCEPT !.rows_seen = @ + 1, !.fi = @ + 1]
    /\ dpc' = "file"
    /\ UNCHANGED <<fs, transactions, returned, seen, last_insert, others>>

\* a failed write that takes back the rows inserted under the import, as
\* one transaction around the file would
ProcessWriteFails_RollsBack ==
    /\ dpc = "row"
    /\ fs[CurrentPath].readable
    /\ run.ri <= Len(fs[CurrentPath].rows)
    /\ CurrentRow.numeric
    /\ ~CurrentRow.writable
    /\ LET txn == TxnOf(CurrentRow, infer_bank_id_from_csv(CurrentPath), CurrentPath)
       IN  accounts' = RowAccounts(txn)
    /\ transactions' = [ h \in { k \in DOMAIN transactions : transactions[k].import_id # run.import_id }
                           |-> transactions[h] ]
    /\ imports' = update_import_status(imports, run.import_id, "failed", NoneInt, "OperationalError")
    /\ run' = [run EXCEPT !.rows_seen = @ + 1, !.fi = @ + 1]
    /\ dpc' = "file"
    /\ UNCHANGED <<fs, returned, seen, last_insert, others>>

\* an iteration in which insert_transaction raises: nothing is written for
\* the row, the except clause marks the import failed and the loop goes on
\* to the next file
ProcessWriteFails ==
    /\ dpc = "row"
    /\ fs[CurrentPath].readable
    /\ run.ri <= Len(fs[CurrentPath].rows)
    /\ CurrentRow.numeric
    /\ ~CurrentRow.writable
    /\ LET txn == TxnOf(CurrentRow, infer_bank_id_from_csv(CurrentPath), CurrentPath)
       IN  accounts' = RowAccounts(txn)
    /\ imports' = update_import_status(imports, run.import_id, "failed", NoneInt, "OperationalError")
    /\ run' = [run EXCEPT !.rows_seen = @ + 1, !.fi = @ + 1]
    /\ dpc' = "file"
    /\ UNCHANGED <<fs, transactions, returned, seen, last_insert, others>>

\* a success update that records the rows seen in the file
FinishFile_RowsSeen ==
    /\ dpc = "row"
    /\ fs[CurrentPath].readable
    /\ run.ri > Len(fs[CurrentPath].rows)
    /\ imports' = update_import_status(imports, run.import_id, "success",
                                       Len(fs[CurrentPath].rows), NoneText)
    /\ run' = [run EXCEPT !.files_processed = @ + 1, !.fi = @ + 1]
    /\ dpc' = "file"
    /\ UNCHANGED <<fs, accounts, transactions, returned, seen, last_insert, others>>

\* the end of a file: update_import_status(status="success")
FinishFile ==
    /\ dpc = "row"
    /\ fs[CurrentPath].readable
    /\ run.ri > Len(fs[CurrentPath].rows)
    /\ imports' = update_import_status(imports, run.import_id, "success",
                                       run.inserted_for_file, NoneText)
    /\ run' = [run EXCEPT !.files_processed = @ + 1, !.fi = @ + 1]
    /\ dpc' = "file"
    /\ UNCHANGED <<fs, accounts, transactions, returned, seen, last_insert, others>>

\* after the last file: the backfill pass, then the summary is returned
\* (with it are kept the file list of the call and the number of stored
\* transactions at its end)
BackfillAndReturn ==
    /\ dpc = "file"
    /\ run.fi > Len(run.files)
    /\ transactions' = Backfill(transactions)
    /\ returned' = Append(returned,
          [ files_processed |-> run.files_processed,
            rows_seen |-> run.rows_seen,
            rows_inserted |-> run.rows_inserted,
            rows_backfilled |-> BackfillCount(transactions),
            files |-> run.files,
            stored |-> Cardinality(DOMAIN transactions) ])
    /\ run' = IdleRun
    /\ dpc' = "idle"
    /\ UNCHANGED <<fs, accounts, imports, seen, last_insert, others>>

Next ==
    \/ MigrateStart
    \/ SkipMissing
    \/ RecordImport
    \/ ReadFails
    \/ ProcessRow
    \/ ProcessBadRow
    \/ ProcessWriteFails
    \/ FinishFile
    \/ BackfillAndReturn

Spec == DbInit /\ [][Next]_vars

\* --- properties of the migrator ---

\* the file at path p is read, every row of it parses and every write of
\* a row succeeds
WellFormed(p) ==
    /\ fs[p].exists /\ fs[p].readable
    /\ \A k \in 1..Len(fs[p].rows) : fs[p].rows[k].numeric /\ fs[p].rows[k].writable

\* the distinct (date, amount to two decimals, lower-cased trimmed
\* description) triples among the rows of one file
DedupKeysIn(p) ==
    { << Strip(fs[p].rows[k].date), fs[p].rows[k].amount < 0, RoundCents(fs[p].rows[k].amount),
         Lower(Strip(fs[p].rows[k].description)) >> : k \in 1..Len(fs[p].rows) }

\* the first two calls, on an empty store, were both made for the file p alone
TwiceOver(p) ==
    /\ Len(returned) >= 2
    /\ returned[1].files = <<p>>
    /\ returned[2].files = <<p>>

\* C1 (as amended): for a CSV whose rows all parse and an initially empty
\* store, the first run inserts one row per distinct dedup hash of the file
\* (all N rows when no two share date, two-decimal amount and lower-cased
\* trimmed description), the second run inserts none, and the number of
\* stored transactions is that same number after both runs
C1_ImportIdempotent ==
    \A p \in Paths :
        TwiceOver(p) /\ WellFormed(p) =>
            LET D == Cardinality(DedupKeysIn(p))
            IN  /\ returned[1].rows_seen = Len(fs[p].rows)
                /\ returned[1].rows_inserted = D
                /\ returned[2].rows_inserted = 0
                /\ returned[1].stored = D
                /\ returned[2].stored = D

\* a file of two distinct rows has been migrated twice
C1_Witness ==
    /\ TwiceOver(CsvA) /\ WellFormed(CsvA)
    /\ Len(fs[CsvA].rows) = 2
    /\ returned[1].rows_inserted = 2
    /\ returned[2].rows_inserted = 0
    /\ returned[2].stored = 2

\* C1 (as claimed): for any CSV of N rows the first run inserts N rows, the
\* second none, and N transactions are stored after both
C1_InsertsEveryRowOnce ==
    \A p \in Paths :
        TwiceOver(p) /\ fs[p].exists =>
            /\ returned[1].rows_inserted = Len(fs[p].rows)
            /\ returned[2].rows_inserted = 0
            /\ returned[1].stored = Len(fs[p].rows)
            /\ returned[2].stored = Len(fs[p].rows)

\* the content id (CanonicalTransaction.id) of a stored row
ContentIdOfStored(row) ==
    Id([ date |-> row.date, description |-> row.description, amount |-> row.amount,
         bank_id |-> row.bank_id, account_id |-> row.account_id,
         canonical_account_id |-> row.canonical_account_id,
         raw_description |-> row.description,
         normalized_description |-> normalize_description(row.description),
         source |-> SRC_data, rfc |-> <<>> ])

\* C2: the store holds exactly one row per distinct content-addressed
\* composite key (bank id, account id, canonical account id, date, amount to
\* two decimals, lower-cased trimmed normalized description, tax id) among
\* the transactions imported so far
C2_OneRowPerContentKey ==
    /\ { ContentIdOfStored(transactions[h]) : h \in DOMAIN transactions } = seen
    /\ Cardinality(DOMAIN transactions) = Cardinality(seen)

\* C3: insert_transaction on a hash already in the store returns False and
\* leaves the table as it is; on a new hash it returns True and adds one row,
\* linked to the import of the call, and changes no other row
C3_InsertNoOpOnDuplicate ==
    [][ last_insert'.call = last_insert.call + 1 =>
          LET h == last_insert'.source_hash
          IN  IF h \in DOMAIN transactions
              THEN /\ ~last_insert'.inserted
                   /\ transactions' = transactions
              ELSE /\ last_insert'.inserted
                   /\ DOMAIN transactions' = DOMAIN transactions \cup {h}
                   /\ \A k \in DOMAIN transactions : transactions'[k] = transactions[k]
                   /\ transactions'[h].import_id = last_insert'.import_id ]_vars

\* the last insert found its hash in the store, and the stored row still
\* belongs to the earlier import that wrote it
C3_Witness ==
    /\ last_insert.call >= 2
    /\ ~last_insert.inserted
    /\ last_insert.source_hash \in DOMAIN transactions
    /\ transactions[last_insert.source_hash].import_id # last_insert.import_id
    /\ transactions[last_insert.source_hash].import_id >= 1

\* the number of stored transactions inserted under import i
InsertedUnder(i) == Cardinality({ h \in DOMAIN transactions : transactions[h].import_id = i })

\* the number of files of a call that exist on disk
ExistingIn(files) == Cardinality({ k \in 1..Len(files) : fs[files[k]].exists })

RECURSIVE ExistingUpTo(_)
\* the number of existing files over the first k finished calls
ExistingUpTo(k) == IF k = 0 THEN 0 ELSE ExistingUpTo(k - 1) + ExistingIn(returned[k].files)

\* the imports table at any moment
ImportRunsInOrder ==
    /\ \A i \in 1..Len(imports) :
          /\ imports[i].status \in {"started", "success", "failed"}
          /\ imports[i].status = "started" =>
                dpc = "row" /\ i = run.import_id /\ i = Len(imports) /\ imports[i].row_count = 0
          /\ imports[i].status = "success" =>
                imports[i].row_count = InsertedUnder(i) /\ imports[i].error = NoneText
          /\ imports[i].status = "failed" => imports[i].error # NoneText
    /\ \A h \in DOMAIN transactions : transactions[h].import_id \in 1..Len(imports)
    /\ dpc = "row" =>
          /\ imports[run.import_id].status = "started"
          /\ imports[run.import_id].source_file = PathStr(CurrentPath)
    /\ dpc = "idle" => Len(imports) = ExistingUpTo(Len(returned))

\* one step of the imports table
ImportRunsAppendOnly ==
    /\ Len(imports') \in {Len(imports), Len(imports) + 1}
    /\ Len(imports') = Len(imports) + 1 =>
          /\ imports'[Len(imports')].status = "started"
          /\ InsertedUnder(Len(imports')) = 0
    /\ \A i \in 1..Len(imports) :
          /\ imports'[i].bank_id = imports[i].bank_id
          /\ imports'[i].source_file = imports[i].source_file
          /\ imports[i].status # "started" => imports'[i] = imports[i]

\* C15: every processed file gets exactly one ImportRun, created as started
\* before any row of the file is inserted; the record has moved to success
\* (with the number of rows inserted from the file) or to failed (with the
\* error) before the next file is started; a record never returns to
\* started, never changes once it is success or failed, and is never
\* deleted.
C15_ImportRunLifecycle == []ImportRunsInOrder /\ [][ImportRunsAppendOnly]_vars

\* a failed import followed by a successful one that inserted a row
C15_Witness ==
    /\ dpc = "idle"
    /\ Len(imports) >= 2
    /\ imports[1].status = "failed"
    /\ imports[2].status = "success"
    /\ imports[2].row_count >= 1

\* the rows of the file at p that fail: a value float() rejects or a write
\* the database rejects
FailingRows(p) == { k \in 1..Len(fs[p].rows) : ~fs[p].rows[k].numeric \/ ~fs[p].rows[k].writable }

\* processing the file at p fails somewhere
Faulty(p) == ~fs[p].readable \/ FailingRows(p) # {}

\* the rows of the file at p the loop gets to
RowsReached(p) ==
    IF ~fs[p].readable THEN 0
    ELSE IF FailingRows(p) = {} THEN Len(fs[p].rows)
    ELSE SetMin(FailingRows(p))

\* the files of a call that exist, in the order of the call
ExistingOf(files) == SelectSeq(files, LAMBDA p : fs[p].exists)

RECURSIVE SumOver(_, _)
\* the sum of f[k] over k in S
SumOver(f, S) == IF S = {} THEN 0 ELSE LET k == CHOOSE x \in S : TRUE IN f[k] + SumOver(f, S \ {k})

\* the k-th finished call met every failure of its files without stopping:
\* each existing file has its own import, failed with an error exactly when
\* the file is faulty, and the summary counts all the files
IsolatedCall(k) ==
    LET base == ExistingUpTo(k - 1)
        ex == ExistingOf(returned[k].files)
        J == 1..Len(ex)
    IN  /\ \A j \in J :
              /\ base + j <= Len(imports)
              /\ imports[base + j].source_file = PathStr(ex[j])
              /\ Faulty(ex[j]) => imports[base + j].status = "failed" /\ imports[base + j].error # NoneText
              /\ ~Faulty(ex[j]) => imports[base + j].status = "success"
        /\ returned[k].files_processed = Cardinality({ j \in J : ~Faulty(ex[j]) })
        /\ returned[k].rows_seen = SumOver([j \in J |-> RowsReached(ex[j])], J)
        /\ returned[k].rows_inserted = SumOver([j \in J |-> InsertedUnder(base + j)], J)

SUMMARY_KEYS == {"files_processed", "rows_seen", "rows_inserted", "rows_backfilled"}

\* C16 as stated: a failure in file N is recorded on N's import, the later
\* files are still processed, and the summary returned holds files
\* processed, rows seen, rows inserted, rows backfilled and a warning count.
C16_SummaryWithWarningCount ==
    \A k \in 1..Len(returned) :
        /\ IsolatedCall(k)
        /\ SUMMARY_KEYS \cup {"warning_count"} \subseteq DOMAIN returned[k]

\* C16 (amended): a failure in file N (unreadable file, bad row value or
\* failed write) is recorded as failed, with its error, on N's import; the
\* later files are still processed; and the call returns its summary of
\* files processed, rows seen, rows inserted and rows backfilled, which has
\* no warning count.
C16_FailureIsolation ==
    \A k \in 1..Len(returned) :
        /\ IsolatedCall(k)
        /\ SUMMARY_KEYS \subseteq DOMAIN returned[k]
        /\ "warning_count" \notin DOMAIN returned[k]

\* a call over two files of which the first failed and the second went
\* through
C16_Witness ==
    /\ Len(returned) >= 1
    /\ Len(ExistingOf(returned[1].files)) = 2
    /\ Faulty(ExistingOf(returned[1].files)[1])
    /\ imports[1].status = "failed"
    /\ imports[2].status = "success"
    /\ imports[2].row_count >= 1
    /\ returned[1].files_processed = 1

\* the canonical ids of the catalog
CatalogIds == { ACCOUNTS_CATALOG[k].canonical_id : k \in 1..Len(ACCOUNTS_CATALOG) }

\* the account record the seeding writes last for the canonical id cid
SeededRecord(cid) ==
    LET last == SetMax({ k \in 1..Len(ACCOUNTS_CATALOG) : ACCOUNTS_CATALOG[k].canonical_id = cid })
        entry == ACCOUNTS_CATALOG[last]
    IN  [ account_id |-> cid, display_name |-> entry.display_name, type |-> entry.type,
          bank_id |-> IF Len(entry.bank_ids) > 0 THEN entry.bank_ids[1] ELSE <<>>,
          closing_day |-> entry.closing_day, currency |-> entry.currency ]

\* the account record the migrator writes for the CSV row it is at
ObservedRecord ==
    LET bank_id == infer_bank_id_from_csv(CurrentPath)
        source_name == Strip(CurrentRow.source_name)
        cid == resolve_canonical_account_id(bank_id, source_name)
    IN  [ account_id |-> cid, display_name |-> IF Len(source_name) > 0 THEN source_name ELSE cid,
          type |-> "credit_card", bank_id |-> bank_id, closing_day |-> NoneInt,
          currency |-> CurrentRow.currency_code ]

\* the step is one in which the migrator observes the account of a row
ObservesRow == dpc = "row" /\ fs[CurrentPath].readable /\ run.ri <= Len(fs[CurrentPath].rows)

\* the accounts after the step are those written: one record per written
\* id, with the written values, and every other record as it was
AccountsAfter(written) ==
    /\ DOMAIN accounts' = DOMAIN accounts \cup DOMAIN written
    /\ \A k \in DOMAIN accounts' :
          /\ accounts'[k].account_id = k
          /\ accounts'[k] = IF k \in DOMAIN written THEN written[k] ELSE accounts[k]

\* C17: upsert_account inserts the account when its canonical id is new and
\* otherwise overwrites display name, type, bank id, closing day and
\* currency with the values of the latest call; after every step there is
\* one account record per canonical id, holding the values last written,
\* and no account is ever removed.
C17_AccountLastWriteWins ==
    [][ IF dpc = "idle" THEN AccountsAfter([ cid \in CatalogIds |-> SeededRecord(cid) ])
        ELSE IF ObservesRow THEN AccountsAfter([ cid \in {ObservedRecord.account_id} |-> ObservedRecord ])
        ELSE accounts' = accounts ]_vars

\* a catalog account seeded with its closing day, overwritten by a row of a
\* CSV, while a second account stands beside it
C17_Witness ==
    /\ CatalogIds \subseteq DOMAIN accounts
    /\ \E cid \in CatalogIds : accounts[cid] # SeededRecord(cid)
    /\ Cardinality(DOMAIN accounts) >= 2
    /\ Len(returned) >= 1

\* the step is the maintenance pass at the end of migrate_csvs_to_db
BackfillStep == dpc = "file" /\ run.fi > Len(run.files)

\* the stored rows whose normalized field is empty
Legacy(store) == { h \in DOMAIN store : store[h].normalized_description = <<>> }

\* every field of a stored row but the normalized description
OtherFields == { "source_hash", "date", "amount", "currency", "description", "account_id",
                 "canonical_account_id", "bank_id", "source_file", "import_id" }

\* C18: the backfill pass at the end of migrate_csvs_to_db sets the
\* normalized description of every stored row whose normalized field is
\* empty to normalize_description(raw description) and changes nothing
\* else: the row's id and its other fields, and the rows whose normalized
\* field is set, are unchanged, and no row is added or removed.
C18_BackfillFrame ==
    [][ BackfillStep =>
          /\ DOMAIN transactions' = DOMAIN transactions
          /\ \A h \in DOMAIN transactions :
                /\ DOMAIN transactions'[h] = DOMAIN transactions[h]
                /\ \A f \in OtherFields : transactions'[h][f] = transactions[h][f]
                /\ h \in Legacy(transactions) =>
                      transactions'[h].normalized_description
                          = normalize_description(transactions[h].description)
                /\ h \notin Legacy(transactions) => transactions'[h] = transactions[h]
          /\ returned'[Len(returned')].rows_backfilled = Cardinality(Legacy(transactions)) ]_vars

\* a second call whose backfill found rows filled by the first call beside
\* rows just inserted, and filled the latter with a text that differs from
\* the description
C18_Witness ==
    /\ Len(returned) >= 2
    /\ returned[1].rows_backfilled >= 1
    /\ returned[2].rows_backfilled >= 1
    /\ \E h \in DOMAIN transactions :
          /\ transactions[h].normalized_description # <<>>
          /\ transactions[h].normalized_description # transactions[h].description

\* the stored transactions of the table store linked to import i
LinkedIn(store, i) == { h \in DOMAIN store : store[h].import_id = i }

\* the source hashes of the rows of the current file before row k
HashesBefore(k) ==
    { SourceHashOf(TxnOf(fs[CurrentPath].rows[j], infer_bank_id_from_csv(CurrentPath), CurrentPath))
        : j \in 1..(k - 1) }

\* the step marks the import of the current file failed
FailureStep == dpc = "row" /\ imports'[run.import_id].status = "failed"

\* C26: every insert commits independently: when processing of a file
\* fails at row k, the transactions inserted from the rows before k remain
\* stored and linked to the failed import, they are counted in the
\* summary's rows_inserted, and no step removes a stored transaction or
\* changes its import.
C26_PartialPersistence ==
    [][ /\ \A h \in DOMAIN transactions :
              h \in DOMAIN transactions' /\ transactions'[h].import_id = transactions[h].import_id
        /\ FailureStep =>
              /\ transactions' = transactions
              /\ HashesBefore(run.ri) \subseteq DOMAIN transactions'
              /\ LinkedIn(transactions', run.import_id) \subseteq HashesBefore(run.ri)
              /\ Cardinality(LinkedIn(transactions', run.import_id)) = run.inserted_for_file
              /\ run'.rows_inserted = run.rows_inserted
              /\ run.rows_inserted >= run.inserted_for_file
        /\ BackfillStep =>
              returned'[Len(returned')].rows_inserted =
                  Cardinality(DOMAIN transactions')
                  - (IF Len(returned) = 0 THEN 0 ELSE returned[Len(returned)].stored) ]_vars

\* a call has returned in which a file failed after a row of it was
\* inserted: the row is stored under the failed import and counted
C26_Witness ==
    /\ dpc = "idle"
    /\ Len(returned) >= 1
    /\ returned[1].rows_inserted >= 1
    /\ \E i \in 1..Len(imports) : imports[i].status = "failed" /\ InsertedUnder(i) >= 1

\* C28 as stated: every import that has reached success or failed has a
\* row_count equal to the number of stored transactions linked to it.
C28_RowCountIsLinkedCount ==
    \A i \in 1..Len(imports) :
        imports[i].status \in {"success", "failed"} => imports[i].row_count = InsertedUnder(i)

\* a later import of the same file, the files being unchanged, has inserted
\* nothing and has row_count 0
ReimportCountsNothing ==
    \A i, j \in 1..Len(imports) :
        (i < j /\ imports[i].source_file = imports[j].source_file /\ imports[j].status # "started")
            => imports[j].row_count = 0 /\ InsertedUnder(j) = 0

\* C28 (amended): every import that has reached success has a row_count
\* equal to the number of stored transactions linked to it (the rows it
\* newly inserted, not the rows seen); an import that has reached failed
\* keeps row_count 0 whatever was inserted under it before the failure;
\* importing an unchanged file again gives a record with row_count 0, and
\* no stored transaction is ever linked to another import.
C28_RowCountOfSuccess ==
    /\ [](\A i \in 1..Len(imports) :
            /\ imports[i].status = "success" => imports[i].row_count = InsertedUnder(i)
            /\ imports[i].status = "failed" => imports[i].row_count = 0)
    /\ []ReimportCountsNothing
    /\ [][ \A h \in DOMAIN transactions :
              h \in DOMAIN transactions' /\ transactions'[h].import_id = transactions[h].import_id ]_vars

\* a file whose import failed after a row was inserted under it was
\* imported again: the first import has row_count 0 and one linked
\* transaction, the second has none
C28_Witness ==
    /\ dpc = "idle"
    /\ \E i, j \in 1..Len(imports) :
          /\ i < j
          /\ imports[i].source_file = imports[j].source_file
          /\ imports[i].status = "failed" /\ imports[i].row_count = 0 /\ InsertedUnder(i) >= 1
          /\ imports[j].status = "failed" /\ InsertedUnder(j) = 0

\* a file imported with success was imported again
C28_Reimported ==
    /\ dpc = "idle"
    /\ \E i, j \in 1..Len(imports) :
          /\ i < j
          /\ imports[i].source_file = imports[j].source_file
          /\ imports[i].status = "success" /\ imports[i].row_count >= 1
          /\ imports[j].status = "success" /\ imports[j].row_count = 0

\* the rows of the files of a call at which an account resolving to cid is
\* upserted, as <<file, row>> positions among the existing files
ObservedAt(files, cid) ==
    LET ex == ExistingOf(files)
    IN  UNION { { <<f, j>> : j \in { r \in 1..RowsReached(ex[f]) :
                      resolve_canonical_account_id(infer_bank_id_from_csv(ex[f]),
                                                   Strip(fs[ex[f]].rows[r].source_name)) = cid } }
                : f \in 1..Len(ex) }

\* the last of the positions
LastObserved(positions) ==
    LET f == SetMax({ pos[1] : pos \in positions })
    IN  <<f, SetMax({ pos[2] : pos \in { q \in positions : q[1] = f } })>>

\* the account record written for the row at a position
RecordAt(files, pos) ==
    LET p == ExistingOf(files)[pos[1]]
        row == fs[p].rows[pos[2]]
        source_name == Strip(row.source_name)
        cid == resolve_canonical_account_id(infer_bank_id_from_csv(p), source_name)
    IN  [ account_id |-> cid, display_name |-> IF Len(source_name) > 0 THEN source_name ELSE cid,
          type |-> "credit_card", bank_id |-> infer_bank_id_from_csv(p), closing_day |-> NoneInt,
          currency |-> row.currency_code ]

\* C29 as stated: an account seeded from the catalog has its catalog
\* closing day, display name and type after migrate_csvs_to_db has
\* processed its rows, among them rows resolving to its canonical id.
C29_CatalogValuesKept ==
    (dpc = "idle" /\ Len(returned) >= 1) =>
        \A cid \in CatalogIds :
            /\ cid \in DOMAIN accounts
            /\ accounts[cid].closing_day = SeededRecord(cid).closing_day
            /\ accounts[cid].display_name = SeededRecord(cid).display_name
            /\ accounts[cid].type = SeededRecord(cid).type

\* C29 (amended): an account seeded from the catalog has its catalog
\* closing day, display name and type after a call of migrate_csvs_to_db
\* only if the call processed no row resolving to its canonical id; after
\* a call that processed such rows the account holds what the last of them
\* wrote: the row's source name as display name, the type credit_card and
\* no closing day.
C29_CatalogValuesUntilObserved ==
    (dpc = "idle" /\ Len(returned) >= 1) =>
        \A cid \in CatalogIds :
            /\ cid \in DOMAIN accounts
            /\ LET files == returned[Len(returned)].files
                   positions == ObservedAt(files, cid)
               IN  IF positions = {} THEN accounts[cid] = SeededRecord(cid)
                   ELSE /\ accounts[cid] = RecordAt(files, LastObserved(positions))
                        /\ accounts[cid].closing_day = NoneInt

\* a call processed a row of a catalog account: the closing day and the
\* display name of the catalog are gone
C29_Witness ==
    /\ dpc = "idle"
    /\ Len(returned) >= 1
    /\ \E cid \in CatalogIds :
          /\ cid \in DOMAIN accounts
          /\ SeededRecord(cid).closing_day # NoneInt
          /\ accounts[cid].closing_day = NoneInt
          /\ accounts[cid].display_name # SeededRecord(cid).display_name

\* ------------------------------------------------------------------------
\* common_utils.py: normalize_merchant and classify
\* ------------------------------------------------------------------------

W_merchant == <<"m","e","r","c","h","a","n","t",":">>
W_unknown == <<"u","n","k","n","o","w","n">>
W_underscore == <<"_">>
DS_OXXO == <<"O","X","X","O"," ","Q","R","O"," ","1","2","3">>
DS_Amazon == <<"A","m","a","z","o","n"," "," ","M","X">>
DS_netflix == <<"n","e","t","f","l","i","x",".","c","o","m">>
RX_walmart == <<"w","a","l","m","a","r","t">>
RX_OXXO == <<"O","X","X","O">>
RX_amazon == <<"a","m","a","z","o","n">>
RX_o == <<"o">>
RX_netflix == <<"n","e","t","f","l","i","x">>
TG_groceries == <<"b","u","c","k","e","t",":","g","r","o","c","e","r","i","e","s">>
TG_online == <<"o","n","l","i","n","e">>
TG_online_sp == <<"o","n","l","i","n","e"," ">>
TG_broad == <<"b","r","o","a","d">>
TG_subs == <<"s","u","b","s">>
TG_blank == <<" ">>
CN_oxxo == <<"o","x","x","o">>
E_Groceries == <<"E","x","p","e","n","s","e","s",":","F","o","o","d",":","G","r","o","c","e","r","i","e","s">>
E_Online == <<"E","x","p","e","n","s","e","s",":","S","h","o","p","p","i","n","g",":","O","n","l","i","n","e">>
E_Broad == <<"E","x","p","e","n","s","e","s",":","O","t","h","e","r",":","B","r","o","a","d">>
E_Never == <<"E","x","p","e","n","s","e","s",":","N","e","v","e","r">>
E_Uncategorized == <<"E","x","p","e","n","s","e","s",":","O","t","h","e","r",":","U","n","c","a","t","e","g","o","r","i","z","e","d">>

\* the regexes of the model are literal patterns: rx.search(text) with
\* re.IGNORECASE finds the pattern anywhere in the text, whatever the case
search(rx, text) ==
    \E i \in 0..(Len(text) - Len(rx)) :
        Lower(SubSeq(text, i + 1, i + Len(rx))) = Lower(rx)

\* one entry of compile_rules' result; expense is empty when the rule's
\* "set" has no expense
CompiledRule(name, regexes, exp, tgs) ==
    [name |-> name, regexes |-> regexes, expense |-> exp, tags |-> tgs]

R_Groceries == CompiledRule("Groceries", <<RX_walmart, RX_OXXO>>, E_Groceries, <<TG_groceries>>)

R_Online == CompiledRule("Online", <<RX_amazon>>, E_Online, <<TG_online_sp, TG_online, TG_blank>>)

R_Broad == CompiledRule("Broad", <<RX_o>>, E_Broad, <<TG_broad>>)

R_TagsOnly == CompiledRule("TagsOnly", <<RX_netflix>>, <<>>, <<TG_subs>>)

R_NoRegex == CompiledRule("NoRegex", <<>>, E_Never, <<TG_broad>>)

RulePool == {R_Groceries, R_Online, R_Broad, R_TagsOnly, R_NoRegex}

\* the longest rule list
MaxRules == 2

RuleLists == { rs \in ListsOver(RulePool, MaxRules) : \A i, j \in 1..Len(rs) : rs[i] = rs[j] => i = j }

DescPool == {DS_OXXO, DS_Amazon, DS_netflix, <<>>}

AliasPool == { <<>>, << [canon |-> CN_oxxo, any_regex |-> <<RX_OXXO>>] >> }

FALLBACK_EXPENSE == E_Uncategorized

\* a rule fires when every one of its regexes matches
RuleFiresAll(r, d) == \A k \in 1..Len(r.regexes) : search(r.regexes[k], d)

\* any(rx.search(desc or "") for rx in r["regexes"])
RuleFires(r, d) == \E k \in 1..Len(r.regexes) : search(r.regexes[k], d)

RECURSIVE RemoveDigits(_)
\* re.sub(r"\d+", "", d)
RemoveDigits(s) ==
    IF Len(s) = 0 THEN <<>>
    ELSE IF Head(s) \in Digits THEN RemoveDigits(Tail(s))
    ELSE <<Head(s)>> \o RemoveDigits(Tail(s))

RECURSIVE PartsFrom(_, _, _)
\* [p for p in s.split(" ") if p]
PartsFrom(s, i, cur) ==
    IF i > Len(s) THEN (IF Len(cur) > 0 THEN <<cur>> ELSE <<>>)
    ELSE IF s[i] = " "
         THEN (IF Len(cur) > 0 THEN <<cur>> ELSE <<>>) \o PartsFrom(s, i + 1, <<>>)
         ELSE PartsFrom(s, i + 1, Append(cur, s[i]))

RECURSIVE AliasCanon(_, _, _)
\* the alias loop of normalize_merchant from alias k on: the canon of the
\* first alias with a matching regex ("unknown" when that canon is empty),
\* <<>> when no alias matches
AliasCanon(d, aliases, k) ==
    IF k > Len(aliases) THEN <<>>
    ELSE IF \E j \in 1..Len(aliases[k].any_regex) : search(aliases[k].any_regex[j], d)
         THEN (IF Len(Strip(aliases[k].canon)) > 0 THEN Strip(aliases[k].canon) ELSE W_unknown)
         ELSE AliasCanon(d, aliases, k + 1)

normalize_merchant(de, aliases) ==
    LET d == Strip(CollapseFrom(Lower(de), 1))
        hit == AliasCanon(d, aliases, 1)
        parts == PartsFrom(Strip(RemoveDigits(d)), 1, <<>>)
    IN  IF Len(hit) > 0 THEN hit
        ELSE IF Len(parts) = 0 THEN W_unknown
        ELSE JoinWith(SubSeq(parts, 1, IF Len(parts) < 2 THEN Len(parts) ELSE 2), W_underscore)

\* sorted(set(t.strip() for t in tags if t and str(t).strip())): the sorted
\* list is represented by the set of its elements
DedupTags(tgs) == { Strip(tgs[k]) : k \in { j \in 1..Len(tgs) : Len(tgs[j]) > 0 /\ Len(Strip(tgs[j])) > 0 } }

ClassifyInit ==
    /\ desc \in DescPool
    /\ compiled_rules \in RuleLists
    /\ merchant_aliases \in AliasPool
    /\ expense = <<>>
    /\ tags = <<>>
    /\ consulted = 0
    /\ cpc = "loop"
    /\ classified = <<>>
    /\ nmRest /\ idRest /\ rcRest /\ dbRest /\ kiRest /\ spRest /\ giRest /\ pxRest /\ mdRest /\ lgRest /\ rsRest

clOthers == <<nmVars, idVars, rcVars, dbVars, kiVars, spVars, giVars, pxVars, mdVars, lgVars, rsVars>>

\* one iteration of the rule loop on a rule that fires: its expense and
\* tags are taken and the loop is left
ClassifyFire ==
    /\ cpc = "loop"
    /\ consulted < Len(compiled_rules)
    /\ RuleFires(compiled_rules[consulted + 1], desc)
    /\ consulted' = consulted + 1
    /\ expense' = compiled_rules[consulted + 1].expense
    /\ tags' = tags \o compiled_rules[consulted + 1].tags
    /\ cpc' = "after"
    /\ UNCHANGED <<desc, compiled_rules, merchant_aliases, classified, clOthers>>

\* one iteration on a rule none of whose regexes matches
ClassifySkip ==
    /\ cpc = "loop"
    /\ consulted < Len(compiled_rules)
    /\ ~RuleFires(compiled_rules[consulted + 1], desc)
    /\ consulted' = consulted + 1
    /\ UNCHANGED <<desc, compiled_rules, merchant_aliases, expense, tags, cpc, classified, clOthers>>

\* after the loop: the fallback, the merchant tag, the de-duplication and
\* the return
ClassifyReturn ==
    /\ \/ cpc = "after"
       \/ cpc = "loop" /\ consulted = Len(compiled_rules)
    /\ LET merchant == normalize_merchant(desc, merchant_aliases)
           exp == IF Len(expense) = 0 THEN FALLBACK_EXPENSE ELSE expense
           tgs == Append(tags, W_merchant \o merchant)
       IN  /\ expense' = exp
           /\ tags' = tgs
           /\ classified' = [expense |-> exp, tags |-> DedupTags(tgs), merchant |-> merchant]
    /\ cpc' = "done"
    /\ UNCHANGED <<desc, compiled_rules, merchant_aliases, consulted, clOthers>>

ClassifyNext == ClassifyFire \/ ClassifySkip \/ ClassifyReturn

SpecClassify == ClassifyInit /\ [][ClassifyNext]_vars

\* the rules with at least one regex found in the description, whatever the
\* case of either
FiringRules ==
    { k \in 1..Len(compiled_rules) :
        \E j \in 1..Len(compiled_rules[k].regexes) :
            \E i \in 0..(Len(desc) - Len(compiled_rules[k].regexes[j])) :
                Lower(SubSeq(desc, i + 1, i + Len(compiled_rules[k].regexes[j])))
                    = Lower(compiled_rules[k].regexes[j]) }

FirstFiring == SetMin(FiringRules)

TrimmedTagsOf(r) == { Strip(r.tags[k]) : k \in 1..Len(r.tags) } \ { <<>> }

MerchantTag == W_merchant \o classified.merchant

\* C11 as stated: classify returns the destination account and exactly the
\* tag set of the first rule, in declaration order, with a matching regex,
\* consulting no later rule, and the fallback destination when no rule
\* matches.
C11_FirstRuleSuppliesAll ==
    cpc = "done" =>
        IF FiringRules # {}
        THEN /\ classified.expense = compiled_rules[FirstFiring].expense
             /\ classified.tags = { compiled_rules[FirstFiring].tags[k] : k \in 1..Len(compiled_rules[FirstFiring].tags) }
             /\ consulted = FirstFiring
        ELSE classified.expense = FALLBACK_EXPENSE

\* C11 (amended): the first rule, in declaration order, with at least one
\* matching regex decides the result and no later rule is consulted: the
\* destination is that rule's expense, or the fallback when the rule sets
\* none; the tags are that rule's trimmed non-empty tags plus the merchant
\* tag.  When no rule matches, the destination is the fallback and the
\* merchant tag is the only tag.
C11_RuleCascade ==
    cpc = "done" =>
        IF FiringRules # {}
        THEN /\ classified.expense =
                    (IF compiled_rules[FirstFiring].expense = <<>> THEN FALLBACK_EXPENSE
                     ELSE compiled_rules[FirstFiring].expense)
             /\ classified.tags = TrimmedTagsOf(compiled_rules[FirstFiring]) \cup {MerchantTag}
             /\ consulted = FirstFiring
        ELSE /\ classified.expense = FALLBACK_EXPENSE
             /\ classified.tags = {MerchantTag}
             /\ consulted = Len(compiled_rules)

\* a later rule would have matched too, and the first one has two regexes of
\* which only the second matches
C11_Witness ==
    /\ cpc = "done"
    /\ Cardinality(FiringRules) = 2
    /\ FirstFiring = 1
    /\ compiled_rules[1] = R_Groceries
    /\ classified.expense = E_Groceries

\* ------------------------------------------------------------------------
\* import_hsbc_cfdi_firefly.py: infer_kind
\* ------------------------------------------------------------------------

\* the pattern element \s+
WS1 == "\\s+"

\* the alternatives of PAYMENT_HINT (pagos? is pago and pagos)
PAYMENT_HINT ==
    { <<"p","a","g","o">>, <<"a","b","o","n","o">>, <<"p","a","y","m","e","n","t">>, <<"p","y","m","t">>,
      <<"p","a","g","o","s">> }

\* the alternatives of PAYMENT_PROCESSOR_HINT; WS1 stands for \s+
PAYMENT_PROCESSOR_HINT ==
    { <<"m","e","r","c","a","d","o","p","a","g","o">>, <<"m","e","r","p","a","g","o">>,
      <<"p","a","y","p","a","l">>, <<"a","l","i","p","a","y">>, <<"c","o","n","e","k","t","a">>,
      <<"c","l","i","p",WS1,"m","x">> }

CHARGE_SERVICE_HINT ==
    { <<"n","e","t","f","l","i","x">>, <<"s","p","o","t","i","f","y">>, <<"n","i","n","t","e","n","d","o">>,
      <<"h","b","o">>, <<"d","i","s","n","e","y">>, <<"o","p","e","n","a","i">>,
      <<"c","h","a","t","g","p","t">>, <<"d","u","o","l","i","n","g","o">>, <<"g","o","o","g","l","e">>,
      <<"y","o","u","t","u","b","e">> }

\* devoluci[oó]n is its two spellings
REFUND_HINT ==
    { <<"r","e","e","m","b","o","l","s","o">>, <<"d","e","v","o","l","u","c","i","o","n">>,
      <<"d","e","v","o","l","u","c","i","ó","n">>, <<"r","e","f","u","n","d">> }

CASHBACK_HINT ==
    { <<"c","a","s","h","b","a","c","k">>, <<"b","o","n","i","f","i","c","a","c","i","o","n">>,
      <<"b","o","n","i","f","i","c","a","c","i","ó","n">> }

\* \w of the re module
IsWordChar(c) == IsCased(c) \/ c \in Digits \/ c = "_"

RECURSIVE MatchEnds(_, _, _, _)
\* the positions right after a match of pat[k..] that starts at text[i],
\* letters compared whatever their case (re.IGNORECASE)
MatchEnds(pat, k, text, i) ==
    IF k > Len(pat) THEN {i}
    ELSE IF i > Len(text) THEN {}
    ELSE IF pat[k] = WS1
         THEN IF IsWs(text[i])
              THEN MatchEnds(pat, k, text, i + 1) \cup MatchEnds(pat, k + 1, text, i + 1)
              ELSE {}
         ELSE IF LowChar(text[i]) = LowChar(pat[k]) THEN MatchEnds(pat, k + 1, text, i + 1)
              ELSE {}

\* \b between text[i-1] and text[i]
Boundary(text, i) ==
    LET before == i > 1 /\ IsWordChar(text[i-1])
        after == i <= Len(text) /\ IsWordChar(text[i])
    IN  before # after

\* re.compile(r"(a|b|...)", re.IGNORECASE).search(text)
SearchAny(alternatives, text) ==
    \E pat \in alternatives : \E i \in 1..(Len(text) + 1) : MatchEnds(pat, 1, text, i) # {}

\* re.compile(r"\b(a|b|...)\b", re.IGNORECASE).search(text)
SearchWord(alternatives, text) ==
    \E pat \in alternatives : \E i \in 1..(Len(text) + 1) :
        /\ Boundary(text, i)
        /\ \E j \in MatchEnds(pat, 1, text, i) : Boundary(text, j)

P_SU_PAGO_GRACIAS == <<"S","U"," ","P","A","G","O"," ","G","R","A","C","I","A","S">>
P_GRACIAS_SPEI == <<"G","R","A","C","I","A","S"," ","S","P","E","I">>

\* the payment keywords are looked for before the service names
infer_kind_PaymentFirst(description, amount, rfc) ==
    LET d == description
    IN  IF SearchWord(PAYMENT_HINT, d) THEN "payment"
        ELSE IF SearchAny(CHARGE_SERVICE_HINT, d) THEN "charge"
        ELSE IF SearchWord(CASHBACK_HINT, d) THEN "cashback"
        ELSE IF SearchWord(REFUND_HINT, d) THEN "refund"
        ELSE IF SearchWord(PAYMENT_PROCESSOR_HINT, d)
             THEN IF search(P_SU_PAGO_GRACIAS, Upper(d)) \/ search(P_GRACIAS_SPEI, Upper(d))
                  THEN "payment" ELSE "charge"
        ELSE IF Len(Strip(rfc)) > 0 THEN "charge"
        ELSE IF amount < 0 THEN "charge" ELSE "payment"

infer_kind(description, amount, rfc) ==
    LET d == description
        InUpper(phrase) == \E i \in 0..(Len(d) - Len(phrase)) : SubSeq(Upper(d), i + 1, i + Len(phrase)) = phrase
    IN  IF SearchAny(CHARGE_SERVICE_HINT, d) THEN "charge"
        ELSE IF SearchWord(CASHBACK_HINT, d) THEN "cashback"
        ELSE IF SearchWord(REFUND_HINT, d) THEN "refund"
        ELSE IF SearchWord(PAYMENT_PROCESSOR_HINT, d)
             THEN IF InUpper(P_SU_PAGO_GRACIAS) \/ InUpper(P_GRACIAS_SPEI)
                  THEN "payment" ELSE "charge"
        ELSE IF SearchWord(PAYMENT_HINT, d) THEN "payment"
        ELSE IF Len(Strip(rfc)) > 0 THEN "charge"
        ELSE IF amount < 0 THEN "charge" ELSE "payment"

X_NETFLIX == <<"N","E","T","F","L","I","X">>
X_cashback == <<"c","a","s","h","b","a","c","k">>
X_Devolucion == <<"D","e","v","o","l","u","c","i","ó","n">>
X_MERPAGO == <<"M","E","R","P","A","G","O">>
X_SU_PAGO_GRACIAS == <<"S","U"," ","P","A","G","O"," ","G","R","A","C","I","A","S">>
X_gracias_spei == <<"g","r","a","c","i","a","s"," ","s","p","e","i">>
X_Pago == <<"P","a","g","o">>
X_OXXO == <<"O","X","X","O">>
X_prepago == <<"p","r","e","p","a","g","o">>
X_CLIP_MX == <<"C","L","I","P"," ","\t","M","X">>
X_googleplay == <<"g","o","o","g","l","e","p","l","a","y">>

\* a piece of a description and what it is: the description is made of
\* pieces separated by single spaces
Piece(text, is) == [text |-> text, is |-> is]

PiecePool ==
    { Piece(X_NETFLIX, {"service"}), Piece(X_googleplay, {"service"}),
      Piece(X_cashback, {"cashback"}), Piece(X_Devolucion, {"refund"}),
      Piece(X_MERPAGO, {"processor"}), Piece(X_CLIP_MX, {"processor"}),
      Piece(X_SU_PAGO_GRACIAS, {"confirmation", "payment"}),
      Piece(X_gracias_spei, {"confirmation"}),
      Piece(X_Pago, {"payment"}), Piece(X_OXXO, {}), Piece(X_prepago, {}) }

\* the most pieces in a description
MaxPieces == 2

PieceLists == ListsOver(PiecePool, MaxPieces)

KindAmounts == {-150000, 0, 150000}

KindRfcs == {<<>>, <<" ">>, RFC_1}

DescriptionOf(pieces) == JoinWith([i \in 1..Len(pieces) |-> pieces[i].text], <<" ">>)

KindInit ==
    /\ k_pieces \in PieceLists
    /\ k_amount \in KindAmounts
    /\ k_rfc \in KindRfcs
    /\ kind = "none"
    /\ kpc = "call"
    /\ nmRest /\ idRest /\ rcRest /\ dbRest /\ clRest /\ spRest /\ giRest /\ pxRest /\ mdRest /\ lgRest /\ rsRest

kiOthers == <<nmVars, idVars, rcVars, dbVars, clVars, spVars, giVars, pxVars, mdVars, lgVars, rsVars>>

InferKind ==
    /\ kpc = "call"
    /\ kind' = infer_kind(DescriptionOf(k_pieces), k_amount, k_rfc)
    /\ kpc' = "done"
    /\ UNCHANGED <<k_pieces, k_amount, k_rfc, kiOthers>>

KindNext == InferKind

SpecKind == KindInit /\ [][KindNext]_vars

Has(what) == \E i \in 1..Len(k_pieces) : what \in k_pieces[i].is

\* C12: infer_kind returns the result of the first check that applies, in
\* the order service name, cashback keyword, refund keyword, payment
\* processor (payment when a confirmation phrase is present, else charge),
\* payment keyword, tax id present, sign of the amount.
C12_KindPriority ==
    kpc = "done" =>
        kind = IF Has("service") THEN "charge"
               ELSE IF Has("cashback") THEN "cashback"
               ELSE IF Has("refund") THEN "refund"
               ELSE IF Has("processor") THEN (IF Has("confirmation") THEN "payment" ELSE "charge")
               ELSE IF Has("payment") THEN "payment"
               ELSE IF \E i \in 1..Len(k_rfc) : ~IsWs(k_rfc[i]) THEN "charge"
               ELSE IF k_amount < 0 THEN "charge"
               ELSE "payment"

\* a service name together with "pago" and a positive amount
C12_Witness ==
    /\ kpc = "done"
    /\ Has("service") /\ Has("payment")
    /\ \E i \in 1..Len(k_pieces) : k_pieces[i].text = X_Pago
    /\ k_amount > 0
    /\ kind = "charge"

\* ------------------------------------------------------------------------
\* common_utils.py: get_statement_period
\* ------------------------------------------------------------------------

\* int() of a string of digits
RECURSIVE ToInt(_)
ToInt(s) == IF Len(s) = 0 THEN 0 ELSE 10 * ToInt(SubSeq(s, 1, Len(s) - 1)) + ((CHOOSE k \in 1..10 : DigitSeq[k] = s[Len(s)]) - 1)

\* f"{n:02d}"
Pad2(n) == IF n < 10 THEN <<"0">> \o IntDigits(n) ELSE IntDigits(n)

IsLeap(y) == (y % 4 = 0 /\ y % 100 # 0) \/ y % 400 = 0

DaysIn(y, m) ==
    IF m = 2 THEN (IF IsLeap(y) THEN 29 ELSE 28)
    ELSE IF m \in {4, 6, 9, 11} THEN 30 ELSE 31

\* the positions of the "-" characters of s
Dashes(s) == { i \in 1..Len(s) : s[i] = "-" }

\* datetime.strptime(date_str, "%Y-%m-%d").date(): a four-digit year, a
\* month and a day of one or two digits, and a day that exists; ok is FALSE
\* where strptime raises ValueError
strptime(date_str) ==
    LET ds == Dashes(date_str)
        a == SetMin(ds)
        b == SetMax(ds)
        ys == SubSeq(date_str, 1, a - 1)
        ms == SubSeq(date_str, a + 1, b - 1)
        dd == SubSeq(date_str, b + 1, Len(date_str))
        shaped == /\ Cardinality(ds) = 2
                  /\ IsDigitStr(ys) /\ Len(ys) = 4
                  /\ IsDigitStr(ms) /\ Len(ms) \in {1, 2}
                  /\ IsDigitStr(dd) /\ Len(dd) \in {1, 2}
    IN  IF ~shaped THEN [ok |-> FALSE, year |-> 0, month |-> 0, day |-> 0]
        ELSE IF ToInt(ys) >= 1 /\ ToInt(ms) \in 1..12 /\ ToInt(dd) \in 1..DaysIn(ToInt(ys), ToInt(ms))
        THEN [ok |-> TRUE, year |-> ToInt(ys), month |-> ToInt(ms), day |-> ToInt(dd)]
        ELSE [ok |-> FALSE, year |-> 0, month |-> 0, day |-> 0]

\* the closing day itself already belongs to the next period
get_statement_period_Inclusive(date_str, closing_day) ==
    LET dt == strptime(date_str)
    IN  IF ~dt.ok THEN <<>>
        ELSE IF dt.day >= closing_day
        THEN IF dt.month + 1 > 12 THEN IntDigits(dt.year + 1) \o <<"-">> \o Pad2(1)
             ELSE IntDigits(dt.year) \o <<"-">> \o Pad2(dt.month + 1)
        ELSE IntDigits(dt.year) \o <<"-">> \o Pad2(dt.month)

get_statement_period(date_str, closing_day) ==
    LET dt == strptime(date_str)
    IN  IF ~dt.ok THEN <<>>
        ELSE IF dt.day > closing_day
        THEN IF dt.month + 1 > 12 THEN IntDigits(dt.year + 1) \o <<"-">> \o Pad2(1)
             ELSE IntDigits(dt.year) \o <<"-">> \o Pad2(dt.month + 1)
        ELSE IntDigits(dt.year) \o <<"-">> \o Pad2(dt.month)

\* the number of years the dates tried are taken from
MaxYears == 2

PeriodYears == 2024..(2023 + MaxYears)

PeriodDays == {1, 14, 15, 16, 20, 28, 29, 30, 31}

ClosingDays == {1, 15, 20, 28, 31}

\* the date as the readers write it, and with bare one-digit month and day
DateString(y, m, d, padded) ==
    IF padded THEN IntDigits(y) \o <<"-">> \o Pad2(m) \o <<"-">> \o Pad2(d)
    ELSE IntDigits(y) \o <<"-">> \o IntDigits(m) \o <<"-">> \o IntDigits(d)

PeriodInit ==
    /\ p_year \in PeriodYears
    /\ p_month \in 1..12
    /\ p_day \in PeriodDays
    /\ p_padded \in BOOLEAN
    /\ p_closing \in ClosingDays
    /\ period = <<>>
    /\ ppc = "call"
    /\ nmRest /\ idRest /\ rcRest /\ dbRest /\ clRest /\ kiRest /\ giRest /\ pxRest /\ mdRest /\ lgRest /\ rsRest

spOthers == <<nmVars, idVars, rcVars, dbVars, clVars, kiVars, giVars, pxVars, mdVars, lgVars, rsVars>>

StatementPeriod ==
    /\ ppc = "call"
    /\ period' = get_statement_period(DateString(p_year, p_month, p_day, p_padded), p_closing)
    /\ ppc' = "done"
    /\ UNCHANGED <<p_year, p_month, p_day, p_padded, p_closing, spOthers>>

PeriodNext == StatementPeriod

SpecPeriod == PeriodInit /\ [][PeriodNext]_vars

\* the day exists in the calendar
ValidDate == p_day <= (CASE p_month = 2 -> (IF p_year % 4 = 0 THEN 29 ELSE 28)
                         [] p_month \in {4, 6, 9, 11} -> 30
                         [] OTHER -> 31)

YearMonth(y, m) == IntDigits(y) \o <<"-">> \o (IF m < 10 THEN <<"0", DigitSeq[m + 1]>> ELSE <<"1", DigitSeq[m - 9]>>)

\* C14: for a valid date, the period is (year, month) when the day of the
\* month is at most the closing day, and the following month otherwise,
\* December rolling over to January of the next year.
C14_StatementPeriod ==
    (ppc = "done" /\ ValidDate) =>
        period = IF p_day <= p_closing THEN YearMonth(p_year, p_month)
                 ELSE IF p_month = 12 THEN YearMonth(p_year + 1, 1)
                 ELSE YearMonth(p_year, p_month + 1)

\* December 20 with closing day 15
C14_Witness ==
    /\ ppc = "done"
    /\ p_month = 12 /\ p_day = 20 /\ p_closing = 15
    /\ period = YearMonth(p_year + 1, 1)

\* ------------------------------------------------------------------------
\* common_utils.py: clean_description; validation.py; generic_importer.py:
\* GenericImporter.process
\* ------------------------------------------------------------------------

BANK_TERM_GLOSSARY ==
    { <<<<"C","O","M","I","S","I","O","N">>, <<"C","o","m","i","s","i","ó","n">>>>,
      <<<<"A","D","M","I","N","I","S","T","R","A","C","I","O","N">>, <<"A","d","m","i","n","i","s","t","r","a","c","i","ó","n">>>>,
      <<<<"C","A","N","C","E","L","A","C","I","O","N">>, <<"C","a","n","c","e","l","a","c","i","ó","n">>>>,
      <<<<"D","E","V","O","L","U","C","I","O","N">>, <<"D","e","v","o","l","u","c","i","ó","n">>>>,
      <<<<"D","I","S","P","O","S","I","C","I","O","N">>, <<"D","i","s","p","o","s","i","c","i","ó","n">>>>,
      <<<<"R","E","N","O","V","A","C","I","O","N">>, <<"R","e","n","o","v","a","c","i","ó","n">>>>,
      <<<<"O","P","E","R","A","C","I","O","N">>, <<"O","p","e","r","a","c","i","ó","n">>>>,
      <<<<"T","R","A","N","S","A","C","C","I","O","N">>, <<"T","r","a","n","s","a","c","c","i","ó","n">>>>,
      <<<<"P","R","O","T","E","C","C","I","O","N">>, <<"P","r","o","t","e","c","c","i","ó","n">>>>,
      <<<<"R","E","P","O","S","I","C","I","O","N">>, <<"R","e","p","o","s","i","c","i","ó","n">>>>,
      <<<<"F","A","C","T","U","R","A","C","I","O","N">>, <<"F","a","c","t","u","r","a","c","i","ó","n">>>>,
      <<<<"C","O","M","U","N","I","C","A","C","I","O","N">>, <<"C","o","m","u","n","i","c","a","c","i","ó","n">>>>,
      <<<<"N","O","T","I","F","I","C","A","C","I","O","N">>, <<"N","o","t","i","f","i","c","a","c","i","ó","n">>>>,
      <<<<"P","U","B","L","I","C","A","C","I","O","N">>, <<"P","u","b","l","i","c","a","c","i","ó","n">>>>,
      <<<<"P","E","N","S","I","O","N">>, <<"P","e","n","s","i","ó","n">>>>,
      <<<<"D","E","P","O","S","I","T","O">>, <<"D","e","p","ó","s","i","t","o">>>>,
      <<<<"C","R","E","D","I","T","O">>, <<"C","r","é","d","i","t","o">>>>,
      <<<<"D","E","B","I","T","O">>, <<"D","é","b","i","t","o">>>>,
      <<<<"A","U","T","O","M","A","T","I","C","O">>, <<"A","u","t","o","m","á","t","i","c","o">>>>,
      <<<<"E","L","E","C","T","R","O","N","I","C","O">>, <<"E","l","e","c","t","r","ó","n","i","c","o">>>>,
      <<<<"M","E","D","I","C","O">>, <<"M","é","d","i","c","o">>>>,
      <<<<"N","U","M","E","R","O">>, <<"N","ú","m","e","r","o">>>>,
      <<<<"M","I","N","I","M","O">>, <<"M","í","n","i","m","o">>>>,
      <<<<"M","A","X","I","M","O">>, <<"M","á","x","i","m","o">>>>,
      <<<<"U","N","I","C","O">>, <<"Ú","n","i","c","o">>>>,
      <<<<"P","U","B","L","I","C","O">>, <<"P","ú","b","l","i","c","o">>>>,
      <<<<"N","O","M","I","N","A">>, <<"N","ó","m","i","n","a">>>>,
      <<<<"I","N","T","E","R","E","S">>, <<"I","n","t","e","r","é","s">>>>,
      <<<<"T","R","A","N","S","F">>, <<"T","r","a","n","s","f","e","r","e","n","c","i","a">>>>,
      <<<<"S","U","P","E","R","C","T">>, <<"S","u","p","e","r","c","e","n","t","e","r">>>> }

KEEP_UPPER ==
    { <<"A","T","M">>, <<"C","F","E">>, <<"C","I","E">>, <<"C","L","A","B","E">>, <<"C","V","V">>,
      <<"I","M","S","S">>, <<"I","N","F","O","N","A","V","I","T">>, <<"I","S","S","S","T","E">>, <<"I","V","A">>,
      <<"P","I","N">>, <<"R","F","C">>, <<"S","A","T">>, <<"S","P","E","I">> }

ACC_NAME == <<"L","i","a","b","i","l","i","t","i","e","s",":","C","C",":","H","S","B","C">>
PAY_ASSET == <<"A","s","s","e","t","s",":","C","h","e","c","k","i","n","g">>
CURRENCY == <<"M","X","N">>
INCOME_CASHBACK == <<"I","n","c","o","m","e",":","C","a","s","h","b","a","c","k">>
INCOME_OTHER == <<"I","n","c","o","m","e",":","O","t","h","e","r">>
GD_NETFLIX_pago == <<"N","E","T","F","L","I","X"," "," ","p","a","g","o">>
GD_SU_PAGO == <<"S","U"," ","P","A","G","O"," ","G","R","A","C","I","A","S">>
GD_DEVOLUCION == <<"D","E","V","O","L","U","C","I","O","N"," ","a","m","a","z","o","n">>
GD_cashback == <<"c","a","s","h","b","a","c","k">>
GD_WALMART == <<"W","A","L","M","A","R","T">>
GD_blank == <<" "," ">>
D_slashed == <<"1","5","/","0","1","/","2","0","2","6">>
RFC_amp == <<"P","&","G","8","5","0","1","0","1">>

\* clean_description: whitespace collapsed, then each word replaced by its
\* glossary form, kept upper-case when it is a known acronym, or title-cased
clean_description(de) ==
    LET words == SplitWs(strip_ws(de))
        clean(word) == IF InDict(BANK_TERM_GLOSSARY, Upper(word)) THEN DictGet(BANK_TERM_GLOSSARY, Upper(word))
                       ELSE IF Upper(word) \in KEEP_UPPER THEN Upper(word)
                       ELSE Title(word)
    IN  JoinWith([i \in 1..Len(words) |-> clean(words[i])], <<" ">>)

\* ISO_DATE_RX = ^\d{4}-\d{2}-\d{2}$
ISO_DATE_RX(s) ==
    /\ Len(s) = 10
    /\ \A i \in {1, 2, 3, 4, 6, 7, 9, 10} : s[i] \in Digits
    /\ s[5] = "-" /\ s[8] = "-"

\* validate_transaction, on the fields it reads
validate_transaction(date, description, bank_id, account_id) ==
    (IF ISO_DATE_RX(date) THEN {} ELSE {"invalid_date"})
    \cup (IF Len(description) = 0 \/ Len(Strip(description)) = 0 THEN {"missing_description"} ELSE {})
    \cup (IF Len(bank_id) = 0 THEN {"missing_bank_id"} ELSE {})
    \cup (IF Len(account_id) = 0 THEN {"missing_account_id"} ELSE {})

\* the fields of CanonicalTransaction that have no default value
CANONICAL_REQUIRED == {"date", "description", "amount", "bank_id", "account_id", "canonical_account_id"}

\* the keyword arguments process passes to CanonicalTransaction
PROCESS_KEYWORDS == {"date", "description", "amount", "bank_id", "account_id", "source", "rfc"}

B_santander == <<"s","a","n","t","a","n","d","e","r">>

ImporterPool ==
    { TxnRaw(D_15, DS_OXXO, -100000, <<>>, <<>>, SRC_data, 0, <<>>),
      TxnRaw(D_15, DS_OXXO, 100000, <<>>, <<>>, SRC_data, 0, <<>>),
      TxnRaw(D_16, GD_NETFLIX_pago, 150000, <<>>, <<>>, SRC_data, 0, <<>>),
      TxnRaw(D_16, GD_SU_PAGO, 500000, <<>>, <<>>, SRC_data, 0, <<>>),
      TxnRaw(D_15, GD_DEVOLUCION, 250000, <<>>, <<>>, SRC_data, 0, <<>>),
      TxnRaw(D_15, GD_cashback, 50000, <<>>, <<>>, SRC_pdf, 0, <<>>),
      TxnRaw(D_15, GD_WALMART, 30004, RFC_amp, <<>>, SRC_data, 0, <<>>),
      TxnRaw(D_slashed, DS_OXXO, -100000, <<>>, <<>>, SRC_data, 0, <<>>),
      TxnRaw(D_15, GD_blank, -100000, <<>>, <<>>, SRC_data, 0, <<>>) }

\* the longest list handed to process
MaxTxns == 2

ImporterRules == <<R_Groceries, R_Online, R_TagsOnly>>

ImporterInit ==
    /\ g_txns \in ListsOver(ImporterPool, MaxTxns)
    /\ g_strict \in BOOLEAN
    /\ g_bank_id \in {B_hsbc, B_santander}
    /\ out_rows = <<>>
    /\ warning_count = 0
    /\ gpc = "loop"
    /\ g_error = "none"
    /\ nmRest /\ idRest /\ rcRest /\ dbRest /\ clRest /\ kiRest /\ spRest /\ pxRest /\ mdRest /\ lgRest /\ rsRest

giOthers == <<nmVars, idVars, rcVars, dbVars, clVars, kiVars, spVars, pxVars, mdVars, lgVars, rsVars>>

\* the first iteration of the loop: after clean_description, the
\* CanonicalTransaction constructor is called without a required field and
\* raises TypeError, which process does not catch
ProcessConstruct ==
    /\ gpc = "loop"
    /\ Len(g_txns) > 0
    /\ ~(CANONICAL_REQUIRED \subseteq PROCESS_KEYWORDS)
    /\ gpc' = "raised"
    /\ g_error' = "TypeError"
    /\ UNCHANGED <<g_txns, g_strict, g_bank_id, out_rows, warning_count, giOthers>>

\* no transaction: the loop body never runs and the empty result is
\* returned
ProcessReturn ==
    /\ gpc = "loop"
    /\ Len(g_txns) = 0
    /\ gpc' = "returned"
    /\ UNCHANGED <<g_txns, g_strict, g_bank_id, out_rows, warning_count, g_error, giOthers>>

ImporterNext == ProcessConstruct \/ ProcessReturn

SpecImporter == ImporterInit /\ [][ImporterNext]_vars

\* what the claims expect of process -------------------------------------

ValidTxn(t) ==
    validate_transaction(t.date, clean_description(t.description), g_bank_id, ACC_NAME) = {}

ValidPositions == { k \in 1..Len(g_txns) : ValidTxn(g_txns[k]) }

\* the destination classify gives for a description under the importer's
\* rules
ExpenseFor(de) ==
    LET firing == { k \in 1..Len(ImporterRules) : RuleFires(ImporterRules[k], de) }
    IN  IF firing = {} \/ Len(ImporterRules[SetMin(firing)].expense) = 0 THEN FALLBACK_EXPENSE
        ELSE ImporterRules[SetMin(firing)].expense

\* the row shape the claim gives for a transaction of an inferring bank
ShapeFor(t) ==
    LET de == clean_description(t.description)
        k == infer_kind(de, t.amount, t.rfc)
    IN  IF k = "charge"
        THEN [type |-> "withdrawal", source_name |-> ACC_NAME, destination_name |-> ExpenseFor(de),
              amount |-> Fmt2(Abs(t.amount))]
        ELSE IF k = "payment"
        THEN [type |-> "transfer", source_name |-> PAY_ASSET, destination_name |-> ACC_NAME,
              amount |-> Fmt2(Abs(t.amount))]
        ELSE [type |-> "transfer",
              source_name |-> IF k = "cashback" THEN INCOME_CASHBACK ELSE INCOME_OTHER,
              destination_name |-> ACC_NAME, amount |-> Fmt2(Abs(t.amount))]

RECURSIVE ShapesFrom(_)
\* the expected shapes of the rows of the valid transactions, in order
ShapesFrom(k) ==
    IF k > Len(g_txns) THEN <<>>
    ELSE (IF ValidTxn(g_txns[k]) THEN <<ShapeFor(g_txns[k])>> ELSE <<>>) \o ShapesFrom(k + 1)

ShapeOf(row) ==
    [type |-> row.type, source_name |-> row.source_name, destination_name |-> row.destination_name,
     amount |-> row.amount]

\* C13: for a bank that uses kind inference, a non-strict call of process
\* ends by returning exactly one row per valid transaction, shaped by the
\* transaction's kind (charge: withdrawal from the card account to the
\* classified expense account; payment: transfer from the funding account
\* to the card account; refund or cashback: transfer from an income account
\* to the card account), with the absolute amount to two decimals.
C13_OneRowPerKind ==
    (gpc # "loop" /\ g_bank_id = B_hsbc /\ ~g_strict) =>
        /\ gpc = "returned"
        /\ [k \in 1..Len(out_rows) |-> ShapeOf(out_rows[k])] = ShapesFrom(1)

\* C19: in non-strict mode process returns, having added one warning and no
\* row for each transaction that fails validation and having gone on to the
\* later transactions; in strict mode a transaction that fails validation
\* makes it raise ValidationError.
C19_ValidationModes ==
    /\ (gpc # "loop" /\ ~g_strict) =>
            /\ gpc = "returned"
            /\ Len(out_rows) = Cardinality(ValidPositions)
            /\ warning_count >= Len(g_txns) - Cardinality(ValidPositions)
    /\ (gpc # "loop" /\ g_strict /\ ValidPositions # 1..Len(g_txns)) =>
            /\ gpc = "raised"
            /\ g_error = "ValidationError"

W_card == <<"c","a","r","d",":">>
W_period == <<"p","e","r","i","o","d",":">>
W_rfc == <<"r","f","c",":">>

\* the tags the claim gives the row of a transaction: the tags of the first
\* firing rule, the merchant tag, the card tag, the period tag, and the
\* tax-id tag when there is a tax id
ClaimedTags(t) ==
    LET de == clean_description(t.description)
        firing == { k \in 1..Len(ImporterRules) : RuleFires(ImporterRules[k], de) }
        period_of == get_statement_period(t.date, 31)
    IN  (IF firing = {} THEN {} ELSE DedupTags(ImporterRules[SetMin(firing)].tags))
            \cup { W_merchant \o normalize_merchant(de, <<>>) }
            \cup { W_card \o g_bank_id }
            \cup (IF Len(period_of) > 0 THEN { W_period \o period_of } ELSE {})
            \cup (IF Len(t.rfc) > 0 THEN { W_rfc \o t.rfc } ELSE {})

NL == "\n"

\* \s
IsS(c) == IsWs(c) \/ c = NL

\* [A-Z] under re.IGNORECASE: the ASCII letters
IsAZ(c) == \E i \in 1..26 : UpperLetters[i] = c \/ LowerLetters[i] = c

\* str.strip() of a text that may hold newlines
StripS(s) ==
    LET keep == { i \in 1..Len(s) : ~IsS(s[i]) }
    IN  IF keep = {} THEN <<>> ELSE SubSeq(s, SetMin(keep), SetMax(keep))

\* str.splitlines(): the pieces between the newlines; a newline at the very
\* end opens no further line
splitlines(s) ==
    LET ends == { i \in 1..Len(s) : s[i] = NL }
                    \cup (IF Len(s) > 0 /\ s[Len(s)] # NL THEN {Len(s) + 1} ELSE {})
        EndOf(k) == CHOOSE e \in ends : Cardinality({ x \in ends : x < e }) = k - 1
    IN  [ k \in 1..Cardinality(ends) |->
            SubSeq(s, (IF k = 1 THEN 1 ELSE EndOf(k - 1) + 1), EndOf(k) - 1) ]

RECURSIVE ReplaceFrom(_, _, _, _)
ReplaceFrom(s, i, old, new) ==
    IF i > Len(s) THEN <<>>
    ELSE IF i + Len(old) - 1 <= Len(s) /\ SubSeq(s, i, i + Len(old) - 1) = old
         THEN new \o ReplaceFrom(s, i + Len(old), old, new)
         ELSE <<s[i]>> \o ReplaceFrom(s, i + 1, old, new)

\* str.replace(old, new), old not empty
StrReplace(s, old, new) == ReplaceFrom(s, 1, old, new)

\* where a greedy \s* that starts at position p of L stops
SkipS(L, p) == SetMax({ q \in p..(Len(L) + 1) : \A i \in p..(q - 1) : IsS(L[i]) })

\* \d{k} at position p of L
DigitsAt(L, p, k) == p + k - 1 <= Len(L) /\ \A i \in p..(p + k - 1) : L[i] \in Digits

\* how many characters a greedy \d{1,2} takes at position p of L
DayLen(L, p) == IF DigitsAt(L, p, 2) THEN 2 ELSE IF DigitsAt(L, p, 1) THEN 1 ELSE 0

\* [A-Z]{3} at position q of L: the position after it
NamedEnd(L, q) == IF q + 2 <= Len(L) /\ \A i \in q..(q + 2) : IsAZ(L[i]) THEN <<q + 3>> ELSE <<>>

\* a greedy \d{2,4} at position p of L: the positions after it, longest first
YearEnds(L, p) ==
    (IF DigitsAt(L, p, 4) THEN <<p + 4>> ELSE <<>>)
        \o (IF DigitsAt(L, p, 3) THEN <<p + 3>> ELSE <<>>)
        \o (IF DigitsAt(L, p, 2) THEN <<p + 2>> ELSE <<>>)

\* \s*[/-]\s*\d{2,4} at position p of L
SlashYear(L, p) ==
    IF SkipS(L, p) <= Len(L) /\ L[SkipS(L, p)] \in {"/", "-"}
    THEN YearEnds(L, SkipS(L, SkipS(L, p) + 1))
    ELSE <<>>

\* \d{1,2}\s*[/-]\s*\d{2,4} at position p of L
MonthYear(L, p) == IF DayLen(L, p) > 0 THEN SlashYear(L, p + DayLen(L, p)) ELSE <<>>

\* [/-]\s*\d{1,2}\s*[/-]\s*\d{2,4} at position p of L
NumericEnds(L, p) ==
    IF p <= Len(L) /\ L[p] \in {"/", "-"} THEN MonthYear(L, SkipS(L, p + 1)) ELSE <<>>

\* group 1 of row_rx, \d{1,2}(?:\s*[A-Z]{3}|[/-]\s*\d{1,2}\s*[/-]\s*\d{2,4}),
\* tried at position s of L: the positions after its possible matches, in
\* the order the regex engine tries them
DateEnds(L, s) ==
    IF DayLen(L, s) = 0 THEN <<>>
    ELSE NamedEnd(L, SkipS(L, s + DayLen(L, s))) \o NumericEnds(L, s + DayLen(L, s))

\* group 3 of row_rx, [-+]?[\d,\.\s]+[,\.]\d{2}, tried at position c of L:
\* the positions after its possible matches
AmountEnds(L, c) ==
    LET c1 == IF c <= Len(L) /\ L[c] \in {"-", "+"} THEN c + 1 ELSE c
    IN  { f \in (c1 + 4)..(Len(L) + 1) :
            /\ \A i \in c1..(f - 4) : L[i] \in Digits \cup {",", "."} \/ IsS(L[i])
            /\ L[f - 3] \in {",", "."}
            /\ L[f - 2] \in Digits
            /\ L[f - 1] \in Digits }

\* \s+(.*?)\s+(group 3) tried at position e of L: the matches <<a, b, c, f>>,
\* group 2 being L[a..b-1] and group 3 L[c..f-1]
TailMatches(L, e) ==
    UNION { UNION { UNION { { <<a, b, c, f>> : f \in AmountEnds(L, c) }
                            : c \in (b + 1)..SkipS(L, b) }
                    : b \in { x \in a..Len(L) : \A i \in a..(x - 1) : L[i] # NL } }
            : a \in (e + 1)..SkipS(L, e) }

\* the match the engine returns among T: the first \s+ greedy, group 2 lazy,
\* the second \s+ greedy, group 3 greedy
FirstTail(T) ==
    LET a == SetMax({ t[1] : t \in T })
        b == SetMin({ t[2] : t \in { u \in T : u[1] = a } })
        c == SetMax({ t[3] : t \in { u \in T : u[1] = a /\ u[2] = b } })
        f == SetMax({ t[4] : t \in { u \in T : u[1] = a /\ u[2] = b /\ u[3] = c } })
    IN  <<a, b, c, f>>

\* row_rx.search(line): the three groups of the match, <<>> for None
row_rx(L) ==
    LET Matching(s) == { k \in 1..Len(DateEnds(L, s)) : TailMatches(L, DateEnds(L, s)[k]) # {} }
        starts == { s \in 1..Len(L) : Matching(s) # {} }
    IN  IF starts = {} THEN <<>>
        ELSE LET s == SetMin(starts)
                 e == DateEnds(L, s)[SetMin(Matching(s))]
                 t == FirstTail(TailMatches(L, e))
             IN  << SubSeq(L, s, e - 1), SubSeq(L, t[1], t[2] - 1), SubSeq(L, t[3], t[4] - 1) >>

\* parse_amount_str, on a string of digits, separators, signs and blanks:
\* <<>> for None, else the amount in thousandths in a one-element tuple
parse_amount_str(s) ==
    LET cleaned == StripS(SelectSeq(s, LAMBDA c : c \notin {" ", ","}))
        signed == Len(cleaned) > 0 /\ cleaned[1] \in {"-", "+"}
        body == IF signed THEN Tail(cleaned) ELSE cleaned
        dots == { i \in 1..Len(body) : body[i] = "." }
        point == IF dots = {} THEN Len(body) + 1 ELSE SetMin(dots)
        whole == SubSeq(body, 1, point - 1)
        part == SubSeq(SubSeq(body, point + 1, Len(body)) \o <<"0", "0", "0">>, 1, 3)
    IN  IF \/ Cardinality(dots) > 1
           \/ \E i \in 1..Len(body) : body[i] \notin Digits \cup {"."}
           \/ Len(body) - Cardinality(dots) = 0
        THEN <<>>
        ELSE << (IF signed /\ cleaned[1] = "-" THEN -1 ELSE 1) * (1000 * ToInt(whole) + ToInt(part)) >>

\* the months mapping of parse_mx_date
MONTHS ==
    { <<<<"E","N","E">>, <<"0","1">>>>,
      <<<<"E","N","E","R","O">>, <<"0","1">>>>,
      <<<<"F","E","B">>, <<"0","2">>>>,
      <<<<"F","E","B","R","E","R","O">>, <<"0","2">>>>,
      <<<<"M","A","R">>, <<"0","3">>>>,
      <<<<"M","A","R","Z","O">>, <<"0","3">>>>,
      <<<<"A","B","R">>, <<"0","4">>>>,
      <<<<"A","B","R","I","L">>, <<"0","4">>>>,
      <<<<"M","A","Y">>, <<"0","5">>>>,
      <<<<"M","A","Y","O">>, <<"0","5">>>>,
      <<<<"J","U","N">>, <<"0","6">>>>,
      <<<<"J","U","N","I","O">>, <<"0","6">>>>,
      <<<<"J","U","L">>, <<"0","7">>>>,
      <<<<"J","U","L","I","O">>, <<"0","7">>>>,
      <<<<"A","G","O">>, <<"0","8">>>>,
      <<<<"A","G","O","S","T","O">>, <<"0","8">>>>,
      <<<<"S","E","P">>, <<"0","9">>>>,
      <<<<"S","E","T">>, <<"0","9">>>>,
      <<<<"S","E","P","T","I","E","M","B","R","E">>, <<"0","9">>>>,
      <<<<"O","C","T">>, <<"1","0">>>>,
      <<<<"O","C","T","U","B","R","E">>, <<"1","0">>>>,
      <<<<"N","O","V">>, <<"1","1">>>>,
      <<<<"N","O","V","I","E","M","B","R","E">>, <<"1","1">>>>,
      <<<<"D","I","C">>, <<"1","2">>>>,
      <<<<"D","I","C","I","E","M","B","R","E">>, <<"1","2">>>> }

\* how many of the characters of L from position p on are capital ASCII
\* letters, up to ten: what [A-Z]{3,10} takes
CapitalRun(L, p) ==
    SetMax({ n \in 0..10 : p + n - 1 <= Len(L) /\ \A i \in p..(p + n - 1) : \E j \in 1..26 : UpperLetters[j] = L[i] })

\* how many characters a greedy \d{2,4} takes at position p of L
YearLen(L, p) == IF DigitsAt(L, p, 4) THEN 4 ELSE IF DigitsAt(L, p, 3) THEN 3 ELSE IF DigitsAt(L, p, 2) THEN 2 ELSE 0

\* parse_mx_date: the ISO date, <<>> for None
parse_mx_date(date_str, year) ==
    LET s == Upper(StripS(date_str))
        IsSep(p) == p <= Len(s) /\ s[p] \in {"/", "-"}
        \* (\d{4})[/-](\d{1,2})[/-](\d{1,2})
        im == DayLen(s, 6)
        id == DayLen(s, 7 + im)
        iso == DigitsAt(s, 1, 4) /\ IsSep(5) /\ im > 0 /\ IsSep(6 + im) /\ id > 0
        iso_month == ToInt(SubSeq(s, 6, 5 + im))
        iso_day == ToInt(SubSeq(s, 7 + im, 6 + im + id))
        \* (\d{1,2})\s*([A-Z]{3,10})
        k == DayLen(s, 1)
        day == ToInt(SubSeq(s, 1, k))
        q == SkipS(s, 1 + k)
        n == CapitalRun(s, q)
        month_str == SubSeq(s, q, q + n - 1)
        \* (\d{1,2})\s*[/-]\s*(\d{1,2})\s*[/-]\s*(\d{2,4})
        m0 == SkipS(s, q + 1)
        m == DayLen(s, m0)
        r == SkipS(s, m0 + m)
        y0 == SkipS(s, r + 1)
        y == YearLen(s, y0)
        month == ToInt(SubSeq(s, m0, m0 + m - 1))
        yr == ToInt(SubSeq(s, y0, y0 + y - 1))
    IN  IF Len(date_str) = 0 THEN <<>>
        ELSE IF iso /\ iso_day \in 1..31 /\ iso_month \in 1..12
        THEN IntDigits(ToInt(SubSeq(s, 1, 4))) \o <<"-">> \o Pad2(iso_month) \o <<"-">> \o Pad2(iso_day)
        ELSE IF k > 0 /\ n >= 3
        THEN IF day \notin 1..31 THEN <<>>
             ELSE IF ~InDict(MONTHS, month_str) THEN <<>>
             ELSE year \o <<"-">> \o DictGet(MONTHS, month_str) \o <<"-">> \o Pad2(day)
        ELSE IF k > 0 /\ IsSep(q) /\ m > 0 /\ IsSep(r) /\ y > 0
        THEN IF day \notin 1..31 THEN <<>>
             ELSE IF month \notin 1..12 THEN <<>>
             ELSE IntDigits(IF yr < 100 THEN yr + 2000 ELSE yr) \o <<"-">> \o Pad2(month) \o <<"-">> \o Pad2(day)
        ELSE <<>>

TX_header == <<"B","A","N","C","O"," ","H","S","B","C"," ","M","E","X","I","C","O"," ","E","S","T","A","D","O"," ","D","E"," ","C","U","E","N","T","A"," ","T","A","R","J","E","T","A"," ","D","E"," ","C","R","E","D","I","T","O"," ","O","R","O">>

TX_row_named == <<"1","2"," ","E","N","E"," ","O","X","X","O"," ","4","5",".","5","0">>

TX_row_slashed == <<"1","3","/","0","1","/","2","4"," ","U","B","E","R"," ","-","9",".","0","0">>

TX_row_thousands == <<"1","4"," ","E","N","E"," ","L","I","V","E","R","P","O","O","L"," ","1",",","2","3","4",".","5","6">>

TX_row_no_month == <<"1","5"," ","X","Y","Z"," ","O","X","X","O"," ","4","5",".","5","0">>

TX_short == <<"H","S","B","C">>

TX_scan_dollar == <<"1","5"," ","E","N","E"," "," ","O","X","X","O","\t","$","2","3",".","4","5">>

TX_scan_dashed == <<"1","6"," ","E","N","E"," ","U","B","E","R"," ","-"," ","9",".","0","0">>

TX_scan_noise == <<"~","~"," ","|">>

RECURSIVE CollapseBlanksFrom(_, _)
CollapseBlanksFrom(s, i) ==
    IF i > Len(s) THEN <<>>
    ELSE IF s[i] \in {" ", "\t"}
         THEN IF i > 1 /\ s[i-1] \in {" ", "\t"} THEN CollapseBlanksFrom(s, i + 1)
              ELSE <<" ">> \o CollapseBlanksFrom(s, i + 1)
         ELSE <<s[i]>> \o CollapseBlanksFrom(s, i + 1)

\* ocr_image: what image_to_string read, after re.sub(r"[ \t]+", " ", txt);
\* a failed recognition reads nothing
ocr_image(scan) == CollapseBlanksFrom(scan, 1)

\* the year parse_mx_date takes from the clock when it is given none
ClockYear == <<"2", "0", "2", "6">>

\* the row a line of a page gives, if any: the body of the two loops over
\* the lines
RowsOfLine(L, page) ==
    LET m == row_rx(L)
    IN  IF m # <<>> /\ parse_mx_date(m[1], ClockYear) # <<>>
        THEN LET amount == parse_amount_str(StrReplace(m[3], <<",">>, <<".">>))
             IN  IF amount # <<>>
                 THEN << [ raw_date |-> m[1], description |-> StripS(m[2]), amount |-> amount[1],
                           page |-> page, line |-> StripS(L) ] >>
                 ELSE <<>>
        ELSE <<>>

RECURSIVE RowsOfLines(_, _)
RowsOfLines(lines, page) ==
    IF Len(lines) = 0 THEN <<>>
    ELSE RowsOfLine(Head(lines), page) \o RowsOfLines(Tail(lines), page)

\* the cleaning of OCR artifacts applied to a line
CleanOcrLine(L) ==
    StrReplace(StrReplace(StrReplace(L, <<" ", "-", " ">>, <<"-">>), <<" ", "$", " ">>, <<"$">>), <<"$">>, <<>>)

CleanOcrLines(lines) == [ k \in 1..Len(lines) |-> CleanOcrLine(lines[k]) ]

\* a page of the document: its text layer, whether get_text returns,
\* whether render_page returns an image, and what the recognition reads on
\* that image
Page(text, readable, renders, scan) ==
    [ text |-> text, readable |-> readable, renders |-> renders, scan |-> scan ]

PagePool ==
    { Page(TX_header \o <<NL>> \o TX_row_named \o <<NL>> \o TX_row_slashed, TRUE, TRUE, <<>>),
      Page(TX_row_named, TRUE, TRUE, TX_scan_dollar),
      Page(<<>>, TRUE, TRUE, TX_scan_dollar \o <<NL>> \o TX_scan_noise),
      Page(TX_header, TRUE, TRUE, TX_scan_dashed),
      Page(TX_header \o <<NL>> \o TX_row_thousands \o <<NL>> \o TX_row_no_month, TRUE, FALSE, <<>>),
      Page(TX_header \o <<NL>> \o TX_row_named, FALSE, TRUE, TX_scan_noise),
      Page(TX_short, TRUE, FALSE, <<>>) }

MaxPages == 2

Docs == UNION { [1..n -> PagePool] : n \in 0..MaxPages }

\* `len(txt.strip()) > 50`
TextLayerSufficient(t) == Len(StripS(t)) > 50

\* a fallback decided on the length of the text layer as well
OcrFallback_WhenShort(rows, t) == pytesseract /\ (Len(rows) = 0 \/ ~TextLayerSufficient(t))

\* `if not sub_txns and pytesseract`
OcrFallback(rows, t) == pytesseract /\ Len(rows) = 0

PdfInit ==
    /\ doc \in Docs
    /\ use_ocr \in BOOLEAN
    /\ pytesseract \in BOOLEAN
    /\ page_idx = 1
    /\ txt = <<>>
    /\ used_method = ""
    /\ sub_txns = <<>>
    /\ pdf_rows = <<>>
    /\ stages = [ i \in 1..Len(doc) |-> <<>> ]
    /\ xpc = "text"
    /\ nmRest /\ idRest /\ rcRest /\ dbRest /\ clRest /\ kiRest /\ spRest /\ giRest /\ mdRest /\ lgRest /\ rsRest

pxOthers == <<nmVars, idVars, rcVars, dbVars, clVars, kiVars, spVars, giVars, mdVars, lgVars, rsVars>>

Staged(i, names) == [stages EXCEPT ![i] = @ \o names]

\* step 1 of a page when OCR is not forced: page.get_text(), which may raise
TryTextLayer ==
    /\ xpc = "text"
    /\ page_idx <= Len(doc)
    /\ ~use_ocr
    /\ txt' = IF doc[page_idx].readable THEN doc[page_idx].text ELSE <<>>
    /\ used_method' = IF doc[page_idx].readable /\ TextLayerSufficient(doc[page_idx].text)
                      THEN "Text Layer" ELSE ""
    /\ stages' = Staged(page_idx, <<"TRY_TEXT_LAYER">>)
    /\ xpc' = "parse"
    /\ UNCHANGED <<doc, use_ocr, pytesseract, page_idx, sub_txns, pdf_rows, pxOthers>>

\* step 1 of a page when OCR is forced: the text layer is not read
SkipTextLayer ==
    /\ xpc = "text"
    /\ page_idx <= Len(doc)
    /\ use_ocr
    /\ xpc' = "parse"
    /\ UNCHANGED <<doc, use_ocr, pytesseract, page_idx, txt, used_method, sub_txns, pdf_rows, stages, pxOthers>>

\* step 2: the rows of the lines of txt, when there is a text
ParseText ==
    /\ xpc = "parse"
    /\ sub_txns' = IF Len(txt) > 0 THEN RowsOfLines(splitlines(txt), page_idx) ELSE <<>>
    /\ stages' = IF Len(txt) > 0 THEN Staged(page_idx, <<"PARSE_ROWS">>) ELSE stages
    /\ xpc' = "fallback"
    /\ UNCHANGED <<doc, use_ocr, pytesseract, page_idx, txt, used_method, pdf_rows, pxOthers>>

\* the end of an iteration: txns.extend(sub_txns), and the locals of the
\* next iteration
NextPage(rows) ==
    /\ pdf_rows' = pdf_rows \o rows
    /\ page_idx' = page_idx + 1
    /\ txt' = <<>>
    /\ used_method' = ""
    /\ sub_txns' = <<>>
    /\ xpc' = "text"

\* step 3 taken, the page rendered: the image is read and its lines parsed
RenderAndOcr ==
    /\ xpc = "fallback"
    /\ OcrFallback(sub_txns, txt)
    /\ doc[page_idx].renders
    /\ stages' = Staged(page_idx, <<"RENDER", "OCR", "PARSE_ROWS">>)
    /\ NextPage(sub_txns \o RowsOfLines(CleanOcrLines(splitlines(ocr_image(doc[page_idx].scan))), page_idx))
    /\ UNCHANGED <<doc, use_ocr, pytesseract, pxOthers>>

\* step 3 taken, render_page returns None
RenderFails ==
    /\ xpc = "fallback"
    /\ OcrFallback(sub_txns, txt)
    /\ ~doc[page_idx].renders
    /\ stages' = Staged(page_idx, <<"RENDER">>)
    /\ NextPage(sub_txns)
    /\ UNCHANGED <<doc, use_ocr, pytesseract, pxOthers>>

\* step 3 not taken
NoFallback ==
    /\ xpc = "fallback"
    /\ ~OcrFallback(sub_txns, txt)
    /\ NextPage(sub_txns)
    /\ UNCHANGED <<doc, use_ocr, pytesseract, stages, pxOthers>>

\* after the last page: doc.close() and the rows are returned
CloseDoc ==
    /\ xpc = "text"
    /\ page_idx > Len(doc)
    /\ xpc' = "done"
    /\ UNCHANGED <<doc, use_ocr, pytesseract, page_idx, txt, used_method, sub_txns, pdf_rows, stages, pxOthers>>

PdfNext ==
    \/ TryTextLayer
    \/ SkipTextLayer
    \/ ParseText
    \/ RenderAndOcr
    \/ RenderFails
    \/ NoFallback
    \/ CloseDoc

SpecPdf == PdfInit /\ [][PdfNext]_vars

\* --- properties of the page loop ---

\* the pages whose iteration is over
PagesDone == 1..(page_idx - 1)

\* the page went through the stage
Went(i, stage) == \E k \in 1..Len(stages[i]) : stages[i][k] = stage

\* what the text layer of page i gave the function: nothing when OCR is
\* forced or get_text raised
TextRead(i) == IF use_ocr \/ ~doc[i].readable THEN <<>> ELSE doc[i].text

\* the rows recognized in the text layer of page i
TextRows(i) == RowsOfLines(splitlines(TextRead(i)), i)

\* the text layer is read first, and skipped only when OCR is forced; the
\* recognition runs only on a rendered page
TextFirst(i) ==
    /\ Went(i, "TRY_TEXT_LAYER") <=> ~use_ocr
    /\ Went(i, "TRY_TEXT_LAYER") => stages[i][1] = "TRY_TEXT_LAYER"
    /\ Went(i, "OCR") <=> (Went(i, "RENDER") /\ doc[i].renders)
    /\ (~use_ocr /\ TextLayerSufficient(TextRead(i)) /\ Len(TextRows(i)) >= 1) => ~Went(i, "OCR")

\* C20 as stated: per page the text layer is read first unless OCR is
\* forced; the page goes to render-and-OCR when and only when OCR is forced
\* or the text layer is insufficient (its text is under the character
\* threshold, or no row is recognized in it), the recognition being
\* available; a sufficient text layer with a row is never sent to OCR.
C20_OcrWhenInsufficient ==
    \A i \in PagesDone :
        /\ TextFirst(i)
        /\ Went(i, "RENDER") <=>
              (pytesseract /\ (use_ocr \/ ~TextLayerSufficient(TextRead(i)) \/ Len(TextRows(i)) = 0))

\* C20 (amended): per page the text layer is read first unless OCR is
\* forced; the page goes to render-and-OCR when and only when no row was
\* recognized from the text layer (always so when OCR is forced or the text
\* layer is empty) and the recognition is available; the character
\* threshold only names the method in the log, so a text layer under the
\* threshold that yields a row is not sent to OCR.
C20_OcrWhenNoRows ==
    \A i \in PagesDone :
        /\ TextFirst(i)
        /\ Went(i, "RENDER") <=> (pytesseract /\ Len(TextRows(i)) = 0)
        /\ use_ocr => Len(TextRows(i)) = 0

\* a document of which one page, with a short text layer holding a row,
\* was kept off the OCR and another page was sent to it
C20_Witness ==
    /\ xpc = "done"
    /\ pytesseract
    /\ ~use_ocr
    /\ \E i \in PagesDone :
          /\ ~TextLayerSufficient(TextRead(i))
          /\ Len(TextRows(i)) >= 1
          /\ ~Went(i, "RENDER")
    /\ \E i \in PagesDone : Went(i, "OCR") /\ \E k \in 1..Len(pdf_rows) : pdf_rows[k].page = i

\* ------------------------------------------------------------------------
\* pdf_utils.py: extract_pdf_metadata
\* ------------------------------------------------------------------------

\* the keys of PATTERNS, in their order
PATTERN_KEYS == <<"cutoff_date", "due_date", "period", "pago_minimo", "pago_no_intereses", "total_pagar">>

MetaKeys == { PATTERN_KEYS[k] : k \in 1..Len(PATTERN_KEYS) }

\* `if key in ["pago_minimo", "pago_no_intereses", "total_pagar"]`
AMOUNT_KEYS == {"pago_minimo", "pago_no_intereses", "total_pagar"}

\* clean_date_str
clean_date_str(s) == StripS(CollapseFrom(s, 1))

TC_cutoff == <<"1","5"," ","/"," "," ","E","N","E"," ","/"," ","2","0","2","4">>

TC_due == <<"2","8","/","E","N","E","/","2","0","2","4">>

TC_period == <<"1","6"," ","D","I","C"," ","2","0","2","3"," ","-"," ","1","5"," ","E","N","E"," ","2","0","2","4">>

TC_minimo == <<"1","5","0",".","0","0">>

TC_no_intereses == <<"1",",","2","3","4",".","5","6">>

TC_total == <<"1",",","2","3","4",".","5","6">>

OC_cutoff == <<"1","5","/","E","N","E","/","2","0","2","4">>

OC_due == <<"2","8"," ","/"," ","E","N","E"," ","/"," ","2","4">>

OC_period == <<"1","6"," ","D","I","C"," ","2","3"," ","-"," ","1","5"," ","E","N","E"," ","2","4">>

OC_minimo == <<"1","6","0",".","0","0">>

OC_no_intereses == <<"1",",","2","8","4",".","5","6">>

OC_total == <<"1",",","2","8","4",".","5","6">>

\* group 1 of the first pattern of each key that matches, in the text layer
\* of a statement and in what the recognition reads on its header
TextCapture ==
    [ k \in MetaKeys |->
        CASE k = "cutoff_date" -> TC_cutoff [] k = "due_date" -> TC_due [] k = "period" -> TC_period
          [] k = "pago_minimo" -> TC_minimo [] k = "pago_no_intereses" -> TC_no_intereses
          [] k = "total_pagar" -> TC_total ]

OcrCapture ==
    [ k \in MetaKeys |->
        CASE k = "cutoff_date" -> OC_cutoff [] k = "due_date" -> OC_due [] k = "period" -> OC_period
          [] k = "pago_minimo" -> OC_minimo [] k = "pago_no_intereses" -> OC_no_intereses
          [] k = "total_pagar" -> OC_total ]

MaxFound == 2

\* a text, as far as the patterns see it: the keys whose cascade matches,
\* each with its capture (a few of the keys, or all of them)
Readings(captures) ==
    { [ k \in S |-> captures[k] ] :
        S \in { T \in SUBSET MetaKeys : Cardinality(T) <= MaxFound \/ T = MetaKeys } }

\* the value stored for a capture of key k: the parsed amount or the
\* cleaned date; <<>> when parse_amount_str returns None
StoredValue(k, val) == IF k \in AMOUNT_KEYS THEN parse_amount_str(val) ELSE <<clean_date_str(val)>>

\* one run of the loop over active_patterns on a text: the keys set by it
PatternPass(reading, skip) ==
    [ k \in { x \in DOMAIN reading \ skip : StoredValue(x, reading[x]) # <<>> } |->
        StoredValue(k, reading[k])[1] ]

\* txt_ocr = ocr_image(...).lower()
LowerReading(reading) == [ k \in DOMAIN reading |-> Lower(reading[k]) ]

\* an OCR pass for any field that is missing
MissingAny(md) == ~(MetaKeys \subseteq DOMAIN md)

\* missing_critical
MissingCritical(md) == ~("cutoff_date" \in DOMAIN md /\ "total_pagar" \in DOMAIN md)

\* the dict d updated with the entries of e
Updated(d, e) == [ k \in DOMAIN d \cup DOMAIN e |-> IF k \in DOMAIN e THEN e[k] ELSE d[k] ]

MetaInit ==
    /\ page1_text \in Readings(TextCapture)
    /\ txt_ocr \in Readings(OcrCapture)
    /\ md_readable \in BOOLEAN
    /\ md_cv2 \in BOOLEAN
    /\ md_pytesseract \in BOOLEAN
    /\ md_renders \in BOOLEAN
    /\ metadata = <<>>
    /\ text_metadata = <<>>
    /\ ocr_ran = FALSE
    /\ mpc = "text"
    /\ nmRest /\ idRest /\ rcRest /\ dbRest /\ clRest /\ kiRest /\ spRest /\ giRest /\ pxRest /\ lgRest /\ rsRest

mdOthers == <<nmVars, idVars, rcVars, dbVars, clVars, kiVars, spVars, giVars, pxVars, lgVars, rsVars>>

\* stage 1: the patterns are searched in the text of page one, which is
\* empty when get_text raises
TextPass ==
    /\ mpc = "text"
    /\ metadata' = PatternPass(IF md_readable THEN page1_text ELSE <<>>, {})
    /\ text_metadata' = metadata'
    /\ mpc' = "fallback"
    /\ UNCHANGED <<page1_text, txt_ocr, md_readable, md_cv2, md_pytesseract, md_renders, ocr_ran, mdOthers>>

\* stage 2 entered and the page rendered: the patterns of the keys not yet
\* in metadata are searched in the recognized header
OcrPass ==
    /\ mpc = "fallback"
    /\ MissingCritical(metadata) /\ md_cv2 /\ md_pytesseract
    /\ md_renders
    /\ metadata' = Updated(metadata, PatternPass(LowerReading(txt_ocr), DOMAIN metadata))
    /\ ocr_ran' = TRUE
    /\ mpc' = "done"
    /\ UNCHANGED <<page1_text, txt_ocr, md_readable, md_cv2, md_pytesseract, md_renders, text_metadata, mdOthers>>

\* stage 2 entered, render_page returns None
HeaderRenderFails ==
    /\ mpc = "fallback"
    /\ MissingCritical(metadata) /\ md_cv2 /\ md_pytesseract
    /\ ~md_renders
    /\ mpc' = "done"
    /\ UNCHANGED <<page1_text, txt_ocr, md_readable, md_cv2, md_pytesseract, md_renders, metadata, text_metadata, ocr_ran, mdOthers>>

\* stage 2 not entered
NoOcrPass ==
    /\ mpc = "fallback"
    /\ ~(MissingCritical(metadata) /\ md_cv2 /\ md_pytesseract)
    /\ mpc' = "done"
    /\ UNCHANGED <<page1_text, txt_ocr, md_readable, md_cv2, md_pytesseract, md_renders, metadata, text_metadata, ocr_ran, mdOthers>>

MetaNext ==
    \/ TextPass
    \/ OcrPass
    \/ HeaderRenderFails
    \/ NoOcrPass

SpecMeta == MetaInit /\ [][MetaNext]_vars

\* --- properties of the metadata extraction ---

\* the keys the patterns find in the text of page one
FoundInText == IF md_readable THEN DOMAIN page1_text ELSE {}

\* rendering and recognition are there and the page renders
HeaderOcrAvailable == md_cv2 /\ md_pytesseract /\ md_renders

\* what the OCR pass may and may not do to the metadata
OcrFillsOnlyMissing ==
    /\ FoundInText = DOMAIN text_metadata
    /\ \A k \in FoundInText :
          metadata[k] = (IF k \in AMOUNT_KEYS THEN parse_amount_str(TextCapture[k])[1]
                         ELSE clean_date_str(TextCapture[k]))
    /\ \A k \in DOMAIN metadata \ FoundInText :
          /\ ocr_ran
          /\ k \in DOMAIN txt_ocr
          /\ metadata[k] = (IF k \in AMOUNT_KEYS THEN parse_amount_str(OcrCapture[k])[1]
                            ELSE clean_date_str(Lower(OcrCapture[k])))
    /\ ocr_ran => DOMAIN metadata = FoundInText \cup DOMAIN txt_ocr

\* C21 as stated: the patterns run on the page-one text first; the OCR pass
\* over the header runs exactly when at least one metadata field is still
\* missing after the text pass (rendering and recognition being
\* available), sets only fields still missing, and never replaces a value
\* found by the text pass.
C21_OcrWhenAnyFieldMissing ==
    mpc = "done" =>
        /\ ocr_ran <=> (FoundInText # MetaKeys /\ HeaderOcrAvailable)
        /\ OcrFillsOnlyMissing

\* C21 (amended): the patterns run on the page-one text first; the OCR pass
\* over the header runs exactly when the cutoff date or the total due is
\* still missing after the text pass (rendering and recognition being
\* available), whatever other fields are missing; it sets only fields
\* still missing, and never replaces a value found by the text pass.
C21_OcrWhenCriticalMissing ==
    mpc = "done" =>
        /\ ocr_ran <=> (~({"cutoff_date", "total_pagar"} \subseteq FoundInText) /\ HeaderOcrAvailable)
        /\ OcrFillsOnlyMissing

\* the OCR pass ran, filled a missing field, and left alone a field of the
\* text pass for which it had another value
C21_Witness ==
    /\ mpc = "done"
    /\ ocr_ran
    /\ \E k \in FoundInText \cap DOMAIN txt_ocr : metadata[k] # StoredValue(k, Lower(OcrCapture[k]))[1]
    /\ \E k \in DOMAIN metadata : k \notin FoundInText

\* --- the generic fallback reader: GenericImporter._load_generic ---

\* headers as written in the file
LG_Fecha == <<"F","e","c","h","a">>
LG_Descripcion == <<"D","e","s","c","r","i","p","c","i","o","n">>
LG_Concepto == <<"C","o","n","c","e","p","t","o">>
LG_Monto == <<" ","M","o","n","t","o"," ">>
LG_Only == <<"O","n","l","y">>
LG_Update == <<"U","p","d","a","t","e">>

\* the keywords of the heuristic mapping
LG_DATE_KEYS == { <<"f","e","c","h","a">>, <<"d","a","t","e">> }
LG_DESC_KEYS == { <<"d","e","s","c">>, <<"c","o","n","c","e","p","t","o">>, <<"d","e","s","c","r","i","p","c","i","o","n">> }
LG_AMT_KEYS == { <<"i","m","p","o","r","t","e">>, <<"a","m","o","u","n","t">>, <<"m","o","n","t","o">> }

\* the keywords looked for under a key of col_map
KeywordsOf(key) == IF key = "date" THEN LG_DATE_KEYS ELSE IF key = "desc" THEN LG_DESC_KEYS ELSE LG_AMT_KEYS

\* a column of the file: its header and which cell of a line it holds
Column(name, holds) == [ name |-> name, holds |-> holds ]

ColumnPool ==
    { Column(LG_Fecha, "d"), Column(LG_Descripcion, "s"), Column(LG_Concepto, "s"),
      Column(LG_Monto, "a"), Column(LG_Only, "o"), Column(LG_Update, "u") }

\* the lines of the file: the cells by what they hold; an empty cell is
\* read by pandas as NaN
LinePool ==
    { [ d |-> <<"2","0","2","6","-","0","1","-","1","0">>, s |-> <<"S","t","o","r","e"," ","C">>, a |-> <<"-","4","4",".","0","0">>, o |-> <<"x">>, u |-> <<"n","o"," ","a","p","l","i","c","a"," ","2","0","2","6">> ],
      [ d |-> <<"1","0","/","e","n","e","/","2","6">>, s |-> <<"S","t","o","r","e"," ","D">>, a |-> <<"$","1",",","0","5","5",".","5","0">>, o |-> <<>>, u |-> <<>> ],
      [ d |-> <<" ">>, s |-> <<>>, a |-> <<"a","b","c">>, o |-> <<"7">>, u |-> <<"2","0","2","6","-","0","1","-","1","1">> ] }

\* the most columns and lines of a file
MaxCols == 3
MaxLines == 2

\* the files: columns with different headers, lines in any order
ColumnLists ==
    UNION { { c \in [1..n -> ColumnPool] : \A i, j \in 1..n : i # j => c[i].name # c[j].name }
            : n \in 1..MaxCols }

LineLists == UNION { [1..n -> LinePool] : n \in 0..MaxLines }

\* str(cell): the text of the cell, "nan" for an empty one
str_cell(c) == IF c = <<>> THEN <<"n","a","n">> ELSE c

\* k in c
Within(k, c) == \E i \in 0..(Len(c) - Len(k)) : SubSeq(c, i + 1, i + Len(k)) = k

\* df.columns after [c.strip().lower() for c in df.columns]
StrippedLower(columns) == [ i \in 1..Len(columns) |-> Lower(Strip(columns[i].name)) ]

\* the heuristic mapping: under each key the last column that has one of
\* the key's keywords in its name
HeuristicMap(names) ==
    LET hit(key) == { i \in 1..Len(names) : \E k \in KeywordsOf(key) : Within(k, names[i]) }
    IN  [ key \in { q \in {"date", "desc", "amt"} : hit(q) # {} } |-> names[SetMax(hit(key))] ]

\* the test of the early return
ColumnsMissing_WithAmount(cm) == "date" \notin DOMAIN cm \/ "desc" \notin DOMAIN cm \/ "amt" \notin DOMAIN cm

ColumnsMissing(cm) == "date" \notin DOMAIN cm \/ "desc" \notin DOMAIN cm

\* r[name] of line r, as str() shows it
CellOf(r, name, columns) ==
    str_cell(r[columns[CHOOSE i \in 1..Len(columns) : StrippedLower(columns)[i] = name].holds])

\* parse_iso_date of generic_importer: "" for a blank text; otherwise the
\* date part of an ISO date or, when fromisoformat raises, the first ten
\* characters: for a text that is no ISO date in compact or week form both
\* are the first ten characters of the stripped text
lg_parse_iso_date(s) == LET t == Strip(s) IN SubSeq(t, 1, IF Len(t) < 10 THEN Len(t) ELSE 10)

\* parse_iso_date(s) or parse_es_date(s): parse_es_date is reached with a
\* blank text only, which matches neither of its patterns (None, here <<>>)
LoadDate(s) == IF lg_parse_iso_date(s) # <<>> THEN lg_parse_iso_date(s) ELSE <<>>

\* parse_money: <<>> for None, else the amount in thousandths in a
\* one-element tuple
parse_money(x) ==
    LET s == SelectSeq(Strip(x), LAMBDA c : c \in Digits \cup {".", "-", "+"})
        signed == Len(s) > 0 /\ s[1] \in {"-", "+"}
        body == IF signed THEN Tail(s) ELSE s
        dots == { i \in 1..Len(body) : body[i] = "." }
        point == IF dots = {} THEN Len(body) + 1 ELSE SetMin(dots)
        whole == SubSeq(body, 1, point - 1)
        part == SubSeq(SubSeq(body, point + 1, Len(body)) \o <<"0", "0", "0">>, 1, 3)
    IN  IF \/ Cardinality(dots) > 1
           \/ \E i \in 1..Len(body) : body[i] \notin Digits \cup {"."}
           \/ Len(body) - Cardinality(dots) = 0
        THEN <<>>
        ELSE << (IF signed /\ s[1] = "-" THEN -1 ELSE 1) * (1000 * ToInt(whole) + ToInt(part)) >>

\* the amount of a line: parse_money of the mapped cell, 0.0 without an
\* amount column
LoadAmount(r, cm, columns) ==
    IF "amt" \in DOMAIN cm THEN parse_money(CellOf(r, cm["amt"], columns)) ELSE <<0>>

GenericInit ==
    /\ lg_columns \in ColumnLists
    /\ lg_rows \in LineLists
    /\ col_map = <<>>
    /\ lg_out = <<>>
    /\ lg_i = 0
    /\ lpc = "read"
    /\ nmRest /\ idRest /\ rcRest /\ dbRest /\ clRest /\ kiRest /\ spRest /\ giRest /\ pxRest /\ mdRest /\ rsRest

lgOthers == <<nmVars, idVars, rcVars, dbVars, clVars, kiVars, spVars, giVars, pxVars, mdVars, rsVars>>

\* the columns are renamed and mapped
MapColumns ==
    /\ lpc = "read"
    /\ col_map' = HeuristicMap(StrippedLower(lg_columns))
    /\ lpc' = "mapped"
    /\ UNCHANGED <<lg_columns, lg_rows, lg_out, lg_i, lgOthers>>

\* the early return
ReturnEmpty ==
    /\ lpc = "mapped"
    /\ ColumnsMissing(col_map)
    /\ lg_out' = <<>>
    /\ lpc' = "done"
    /\ UNCHANGED <<lg_columns, lg_rows, col_map, lg_i, lgOthers>>

\* one turn of the loop over the lines, for a line that is kept
LoadLine ==
    /\ lpc = "mapped"
    /\ ~ColumnsMissing(col_map)
    /\ lg_i < Len(lg_rows)
    /\ LET r == lg_rows[lg_i + 1]
           date == LoadDate(CellOf(r, col_map["date"], lg_columns))
           amt == LoadAmount(r, col_map, lg_columns)
       IN  /\ date # <<>> /\ amt # <<>>
           /\ lg_out' = Append(lg_out, TxnRaw(date, CellOf(r, col_map["desc"], lg_columns), amt[1],
                                              <<>>, <<>>, SRC_data, 0, <<>>))
    /\ lg_i' = lg_i + 1
    /\ UNCHANGED <<lg_columns, lg_rows, col_map, lpc, lgOthers>>

\* one turn of the loop for a line without a date or without an amount
DropLine ==
    /\ lpc = "mapped"
    /\ ~ColumnsMissing(col_map)
    /\ lg_i < Len(lg_rows)
    /\ LET r == lg_rows[lg_i + 1]
       IN  \/ LoadDate(CellOf(r, col_map["date"], lg_columns)) = <<>>
           \/ LoadAmount(r, col_map, lg_columns) = <<>>
    /\ lg_i' = lg_i + 1
    /\ UNCHANGED <<lg_columns, lg_rows, col_map, lg_out, lpc, lgOthers>>

\* return out
ReturnLines ==
    /\ lpc = "mapped"
    /\ ~ColumnsMissing(col_map)
    /\ lg_i = Len(lg_rows)
    /\ lpc' = "done"
    /\ UNCHANGED <<lg_columns, lg_rows, col_map, lg_out, lg_i, lgOthers>>

GenericNext == MapColumns \/ ReturnEmpty \/ LoadLine \/ DropLine \/ ReturnLines

SpecGeneric == GenericInit /\ [][GenericNext]_vars

\* --- properties of the generic fallback reader ---

\* some header of the file has one of the key's keywords
Identified(key) ==
    \E i \in 1..Len(lg_columns) : \E k \in KeywordsOf(key) : Within(k, Lower(Strip(lg_columns[i].name)))

\* the cell of line r under the last column identified for the key
UnderKey(r, key) ==
    LET hit == { i \in 1..Len(lg_columns) : \E k \in KeywordsOf(key) : Within(k, Lower(Strip(lg_columns[i].name))) }
    IN  str_cell(r[lg_columns[SetMax(hit)].holds])

\* C23 as stated: the generic fallback reader returns an empty sequence
\* whenever it cannot identify all of the date, description and amount
\* columns among the file's headers.
C23_EmptyUnlessAllThree ==
    (lpc = "done" /\ ~(Identified("date") /\ Identified("desc") /\ Identified("amt")))
        => lg_out = <<>>

\* C23 (amended): the generic fallback reader returns an empty sequence
\* whenever it cannot identify a date column or a description column among
\* the file's headers; the amount column is not required: without one,
\* every line whose date cell is not blank is returned, with amount 0.
C23_EmptyUnlessDateAndDescription ==
    lpc = "done" =>
        /\ ~(Identified("date") /\ Identified("desc")) => lg_out = <<>>
        /\ (Identified("date") /\ Identified("desc") /\ ~Identified("amt")) =>
              LET kept == SelectSeq(lg_rows, LAMBDA r : Strip(UnderKey(r, "date")) # <<>>)
              IN  /\ Len(lg_out) = Len(kept)
                  /\ \A i \in 1..Len(kept) :
                        /\ lg_out[i].amount = 0
                        /\ lg_out[i].description = UnderKey(kept[i], "desc")

\* a file with a date and a description column and no amount column was
\* read and lines of it were returned
C23_Witness ==
    /\ lpc = "done"
    /\ Identified("date") /\ Identified("desc") /\ ~Identified("amt")
    /\ lg_out # <<>>

\* a file without a description column was read
C23_Rejected == lpc = "done" /\ Identified("date") /\ ~Identified("desc") /\ lg_rows # <<>>

\* --- the rule service: stage_rule_change and merge_pending_rules ---

RS_prefix == <<"U","s","e","r","C","o","r","r","e","c","t","i","o","n",":">>
RS_bucket == <<"b","u","c","k","e","t",":">>
RS_expense == <<"E","x","p","e","n","s","e","s",":","F","o","o","d">>
RS_tag == <<"f","o","o","d">>

\* a rule of a rules file or of a pending file
Rule(name, any_regex) ==
    [ name |-> name, any_regex |-> any_regex,
      set |-> [ expense |-> RS_expense, tags |-> << RS_bucket \o RS_tag >> ] ]

\* build_rule
build_rule(merchant_name, regex_pattern, expense_account, bucket_tag) ==
    [ name |-> RS_prefix \o merchant_name, any_regex |-> << regex_pattern >>,
      set |-> [ expense |-> expense_account, tags |-> << RS_bucket \o bucket_tag >> ] ]

\* _rule_regexes, as the set detect_conflicts makes of it: the patterns
\* stripped, the blank ones left out
rule_regexes(rule) ==
    { Strip(rule.any_regex[i]) : i \in 1..Len(rule.any_regex) } \ { <<>> }

\* detect_conflicts with names only
detect_conflicts_NamesOnly(existing_rules, candidate_rule) ==
    { <<"name", Strip(candidate_rule.name)>> : i \in
        { j \in 1..Len(existing_rules) : /\ Strip(candidate_rule.name) # <<>>
                                         /\ Strip(candidate_rule.name) = Strip(existing_rules[j].name) } }

\* detect_conflicts: the set of the conflicts returned, name:<name> as
\* <<"name", name>> and regex:<rx> as <<"regex", rx>>
detect_conflicts(existing_rules, candidate_rule) ==
    LET candidate_name == Strip(candidate_rule.name)
        candidate_rx == rule_regexes(candidate_rule)
    IN  UNION { ( IF candidate_name # <<>> /\ candidate_name = Strip(existing_rules[i].name)
                  THEN { <<"name", candidate_name>> } ELSE {} )
                \cup { <<"regex", rx>> : rx \in candidate_rx \cap rule_regexes(existing_rules[i]) }
                : i \in 1..Len(existing_rules) }

\* the rules a rules file may start with
ActivePool ==
    { Rule(<<"G">>, << <<"w">> >>),
      Rule(RS_prefix \o <<"a">>, << <<"z">> >>),
      Rule(<<"H">>, << <<"x">>, <<"q">> >>) }

\* the rules of a pending file written by hand
HandPool ==
    { Rule(<<"G">>, << <<"t">> >>),
      Rule(<<"T">>, << <<"t">> >>) }

\* what the caller passes to stage_rule_change
MerchantNames == { <<"a">>, <<"b">> }
RegexPatterns == { <<"x">>, <<"y">>, <<>> }

\* the most rules a rules file starts with, and the most a pending file
\* written by hand holds
MaxActive == 2
MaxHand == 2

\* the rules files at the start: rules of the pool, each at most once
RulesFiles ==
    UNION { { f \in [1..n -> ActivePool] : \A i, j \in 1..n : i # j => f[i] # f[j] } : n \in 0..MaxActive }

HandFiles == UNION { [1..n -> HandPool] : n \in 0..MaxHand }

\* working.insert(0, candidate)
InsertBack(working, candidate) == Append(working, candidate)

InsertFront(working, candidate) == <<candidate>> \o working

\* the loop of merge_pending_rules from pending rule i on: the conflicts
\* found, the rules accepted, and the working list
RECURSIVE MergeLoop(_, _, _, _, _)
MergeLoop(pending_rules, i, conflicts, accepted, working) ==
    IF i > Len(pending_rules) THEN [ conflicts |-> conflicts, merged |-> accepted, working |-> working ]
    ELSE LET candidate == pending_rules[i]
             found == detect_conflicts(working, candidate)
         IN  IF found # {}
             THEN MergeLoop(pending_rules, i + 1,
                            Append(conflicts, [ rule |-> candidate.name, conflicts |-> found ]),
                            accepted, working)
             ELSE MergeLoop(pending_rules, i + 1, conflicts,
                            Append(accepted, candidate), InsertFront(working, candidate))

\* pending.get("pending_rules", []) of a pending file that may not exist
PendingRules == IF pending_exists THEN pending_file ELSE <<>>

RulesInit ==
    /\ rules_file \in RulesFiles
    /\ \/ pending_exists = FALSE /\ pending_file = <<>>
       \/ pending_exists = TRUE /\ pending_file \in HandFiles
    /\ backups = <<>>
    /\ rs_call = <<>>
    /\ rs_result = <<>>
    /\ nmRest /\ idRest /\ rcRest /\ dbRest /\ clRest /\ kiRest /\ spRest /\ giRest /\ pxRest /\ mdRest /\ lgRest

rsOthers == <<nmVars, idVars, rcVars, dbVars, clVars, kiVars, spVars, giVars, pxVars, mdVars, lgVars>>

\* the record of a call of stage_rule_change
StageCall(merchant_name, regex_pattern) ==
    [ op |-> "stage", candidate |-> build_rule(merchant_name, regex_pattern, RS_expense, RS_tag) ]

\* stage_rule_change: the candidate conflicts with a rule of the rules file
StageConflict ==
    \E m \in MerchantNames, rx \in RegexPatterns :
        LET candidate == build_rule(m, rx, RS_expense, RS_tag)
            conflicts == detect_conflicts(rules_file, candidate)
        IN  /\ conflicts # {}
            /\ rs_call' = StageCall(m, rx)
            /\ rs_result' = [ ok |-> FALSE, status |-> "conflict", conflicts |-> conflicts ]
            /\ UNCHANGED <<rules_file, pending_exists, pending_file, backups, rsOthers>>

\* stage_rule_change: the candidate conflicts with a pending rule
StageConflictPending ==
    \E m \in MerchantNames, rx \in RegexPatterns :
        LET candidate == build_rule(m, rx, RS_expense, RS_tag)
            pending_conflicts == detect_conflicts(PendingRules, candidate)
        IN  /\ detect_conflicts(rules_file, candidate) = {}
            /\ pending_conflicts # {}
            /\ rs_call' = StageCall(m, rx)
            /\ rs_result' = [ ok |-> FALSE, status |-> "conflict_pending", conflicts |-> pending_conflicts ]
            /\ UNCHANGED <<rules_file, pending_exists, pending_file, backups, rsOthers>>

\* stage_rule_change: the candidate is appended to the pending rules and
\* the pending file is written
StageAccepted ==
    \E m \in MerchantNames, rx \in RegexPatterns :
        LET candidate == build_rule(m, rx, RS_expense, RS_tag)
        IN  /\ detect_conflicts(rules_file, candidate) = {}
            /\ detect_conflicts(PendingRules, candidate) = {}
            /\ pending_file' = Append(PendingRules, candidate)
            /\ pending_exists' = TRUE
            /\ rs_call' = StageCall(m, rx)
            /\ rs_result' = [ ok |-> TRUE, status |-> "staged", pending_count |-> Len(PendingRules) + 1 ]
            /\ UNCHANGED <<rules_file, backups, rsOthers>>

\* merge_pending_rules: no pending file, or one without pending rules
MergeNoPending ==
    /\ ~pending_exists \/ pending_file = <<>>
    /\ rs_call' = [ op |-> "merge" ]
    /\ rs_result' = [ ok |-> FALSE, status |-> "no_pending" ]
    /\ UNCHANGED <<rules_file, pending_exists, pending_file, backups, rsOthers>>

\* merge_pending_rules: some pending rule conflicts; only the half of the
\* merge that raised no conflict is written
MergeRejected_Partial ==
    /\ pending_exists /\ pending_file # <<>>
    /\ LET out == MergeLoop(pending_file, 1, <<>>, <<>>, rules_file)
       IN  /\ out.conflicts # <<>>
           /\ rules_file' = out.working
           /\ rs_result' = [ ok |-> FALSE, status |-> "conflict", conflicts |-> out.conflicts,
                             mergeable_count |-> Len(out.merged) ]
    /\ rs_call' = [ op |-> "merge" ]
    /\ UNCHANGED <<pending_exists, pending_file, backups, rsOthers>>

\* merge_pending_rules: some pending rule conflicts
MergeRejected ==
    /\ pending_exists /\ pending_file # <<>>
    /\ LET out == MergeLoop(pending_file, 1, <<>>, <<>>, rules_file)
       IN  /\ out.conflicts # <<>>
           /\ rs_result' = [ ok |-> FALSE, status |-> "conflict", conflicts |-> out.conflicts,
                             mergeable_count |-> Len(out.merged) ]
    /\ rs_call' = [ op |-> "merge" ]
    /\ UNCHANGED <<rules_file, pending_exists, pending_file, backups, rsOthers>>

\* merge_pending_rules: the backup is written, then the rules file, and the
\* pending file is removed
MergeApplied ==
    /\ pending_exists /\ pending_file # <<>>
    /\ LET out == MergeLoop(pending_file, 1, <<>>, <<>>, rules_file)
       IN  /\ out.conflicts = <<>>
           /\ backups' = Append(backups, rules_file)
           /\ rules_file' = out.working
           /\ rs_result' = [ ok |-> TRUE, status |-> "merged", merged_count |-> Len(out.merged),
                             backup_path |-> Len(backups) + 1 ]
    /\ pending_exists' = FALSE
    /\ pending_file' = <<>>
    /\ rs_call' = [ op |-> "merge" ]
    /\ UNCHANGED rsOthers

\* get_pending_count
get_pending_count == IF pending_exists THEN Len(pending_file) ELSE 0

RulesNext ==
    \/ StageConflict \/ StageConflictPending \/ StageAccepted
    \/ MergeNoPending \/ MergeRejected \/ MergeApplied

SpecRules == RulesInit /\ [][RulesNext]_vars

\* --- properties of the rule service ---

\* the active rules followed by the pending rules
ActiveAndPending == rules_file \o PendingRules

\* the patterns of a rule as written
RegexStrings(rule) == { rule.any_regex[i] : i \in 1..Len(rule.any_regex) }

\* no two of the rules share a name or a regex string
SharesNothing(rules) ==
    \A i, j \in 1..Len(rules) :
        i # j => /\ rules[i].name # rules[j].name
                 /\ RegexStrings(rules[i]) \cap RegexStrings(rules[j]) = {}

\* no two of the rules share a trimmed name or a trimmed regex string that
\* is not blank
SharesNothingNonBlank(rules) ==
    \A i, j \in 1..Len(rules) :
        i # j => /\ Strip(rules[i].name) = <<>> \/ Strip(rules[i].name) # Strip(rules[j].name)
                 /\ rule_regexes(rules[i]) \cap rule_regexes(rules[j]) = {}

\* the step is a call of stage_rule_change
StageStep == rs_call'.op = "stage"

\* the step is a call of merge_pending_rules
MergeStep == rs_call'.op = "merge"

\* the call was rejected and left the pending file as it was
StageRejected ==
    /\ rs_result'.status \in {"conflict", "conflict_pending"}
    /\ UNCHANGED <<rules_file, pending_exists, pending_file>>

\* C24 as stated: stage_rule_change rejects, with status conflict or
\* conflict_pending and the pending file unchanged, any candidate whose
\* name or regex string equals that of an active or pending rule; so no
\* step of stage_rule_change or merge_pending_rules makes two rules among
\* the active and pending ones share a name or a regex string.
C24_NoSharedNameOrRegex ==
    [][ /\ ( StageStep /\ ~SharesNothing(Append(ActiveAndPending, rs_call'.candidate)) /\ SharesNothing(ActiveAndPending) )
            => StageRejected
        /\ SharesNothing(ActiveAndPending) => SharesNothing(ActiveAndPending') ]_vars

\* C24 (amended): stage_rule_change rejects, with status conflict or
\* conflict_pending and the pending file unchanged, any candidate whose
\* trimmed name, or trimmed regex string when it is not blank, equals that
\* of an active or pending rule; so no step of stage_rule_change or
\* merge_pending_rules makes two rules among the active and pending ones
\* share a name or a regex string that is not blank. Blank regex strings
\* are never compared.
C24_NoSharedNameOrNonBlankRegex ==
    [][ /\ ( StageStep /\ ~SharesNothingNonBlank(Append(ActiveAndPending, rs_call'.candidate))
             /\ SharesNothingNonBlank(ActiveAndPending) )
            => StageRejected
        /\ SharesNothingNonBlank(ActiveAndPending) => SharesNothingNonBlank(ActiveAndPending') ]_vars

\* after a merge and further staging, with rules both active and pending, a
\* candidate has just been rejected, and two of the rules have a blank regex
C24_Witness ==
    /\ backups # <<>>
    /\ rules_file # <<>> /\ pending_exists /\ pending_file # <<>>
    /\ rs_call.op = "stage"
    /\ rs_result.status \in {"conflict", "conflict_pending"}
    /\ SharesNothingNonBlank(ActiveAndPending)
    /\ ~SharesNothing(ActiveAndPending)

\* pending rule a conflicts with rule b
Clash(a, b) == detect_conflicts(<<b>>, a) # {}

\* some pending rule conflicts with an active rule or with a pending rule
\* before it
PendingConflict ==
    \E i \in 1..Len(pending_file) :
        \/ \E k \in 1..Len(rules_file) : Clash(pending_file[i], rules_file[k])
        \/ \E j \in 1..(i - 1) : Clash(pending_file[i], pending_file[j])

\* C25: merge_pending_rules is all-or-nothing: with pending rules of which
\* one conflicts with the active rules or with a pending rule accepted
\* before it, it returns status conflict, writes no backup and leaves the
\* rules file and the pending file as they are; with pending rules without
\* conflict it writes one backup equal to the rules file before the merge,
\* the active rules become the old ones and every pending rule, and the
\* pending file is removed, so that the pending count is 0. (Without
\* pending rules it returns no_pending and changes nothing.)
C25_MergeAllOrNothing ==
    [][ MergeStep =>
          IF ~pending_exists \/ pending_file = <<>>
          THEN /\ rs_result'.status = "no_pending"
               /\ UNCHANGED <<rules_file, pending_exists, pending_file, backups>>
          ELSE IF PendingConflict
          THEN /\ rs_result'.status = "conflict" /\ ~rs_result'.ok
               /\ UNCHANGED <<rules_file, pending_exists, pending_file, backups>>
          ELSE /\ rs_result'.status = "merged" /\ rs_result'.ok
               /\ backups' = Append(backups, rules_file)
               /\ Len(rules_file') = Len(rules_file) + Len(pending_file)
               /\ \A i \in 1..Len(pending_file) : \E k \in 1..Len(rules_file') : rules_file'[k] = pending_file[i]
               /\ \A i \in 1..Len(rules_file) : \E k \in 1..Len(rules_file') : rules_file'[k] = rules_file[i]
               /\ rs_result'.merged_count = Len(pending_file)
               /\ ~pending_exists'
               /\ get_pending_count' = 0 ]_vars

\* a merge was rejected although some of the pending rules could have been
\* merged: one of them conflicts with a pending rule accepted before it
C25_Witness ==
    /\ rs_call # <<>> /\ rs_call.op = "merge"
    /\ rs_result.status = "conflict"
    /\ rs_result.mergeable_count > 0
    /\ Len(rs_result.conflicts) > 0
    /\ backups = <<>>

\* C30: after a successful merge_pending_rules the newly merged rules
\* precede all previously active rules, whose order is unchanged, and among
\* the new rules the one staged later comes first; staging appends to the
\* pending rules, so the order of the pending file is the staging order.
C30_NewRulesFirstLatestFirst ==
    [][ /\ ( MergeStep /\ rs_result'.status = "merged" ) =>
              LET n == Len(pending_file)
              IN  /\ Len(rules_file') = n + Len(rules_file)
                  /\ \A i \in 1..n : rules_file'[i] = pending_file[n + 1 - i]
                  /\ \A k \in 1..Len(rules_file) : rules_file'[n + k] = rules_file[k]
        /\ ( StageStep /\ rs_result'.status = "staged" ) =>
              /\ Len(pending_file') = Len(PendingRules) + 1
              /\ \A i \in 1..Len(PendingRules) : pending_file'[i] = PendingRules[i]
              /\ pending_file'[Len(pending_file')] = rs_call'.candidate ]_vars

\* two staged rules were merged over existing rules: the one staged with
\* the pattern y after the one staged without pattern is the first rule
C30_Witness ==
    /\ rs_call # <<>> /\ rs_call.op = "merge"
    /\ rs_result.status = "merged"
    /\ rs_result.merged_count = 2
    /\ Len(rules_file) > 2
    /\ rules_file[1].any_regex = << <<"y">> >>
    /\ rules_file[2].any_regex = << <<>> >>
    /\ rules_file[3] \in ActivePool

====
